---- MODULE Spec2Model ----
(***************************************************************************)
(* Model of the OAuth2 token lifecycle manager of the Google Calendar MCP  *)
(* server: class AuthService of                                            *)
(* plugins/maro-google-calendar/src/services/auth.service.ts.              *)
(*                                                                         *)
(* The manager is one object shared by every tool invocation.  JavaScript  *)
(* runs each handler without interruption up to its next `await` of real   *)
(* I/O (file read/write, request to the identity provider); one action of  *)
(* the model is one such uninterrupted stretch of one invocation.  The     *)
(* identity provider, the credential file and the token file are the       *)
(* environment: what they answer is chosen nondeterministically.           *)
(*                                                                         *)
(* An optional value (T | null) is the empty sequence or a one-element     *)
(* sequence.  A token string is a number (0: absent/empty, falsy in the    *)
(* source); expiry_date is epoch milliseconds (0: absent, falsy).  The     *)
(* fields scope and token_type of a token record are carried unchanged by  *)
(* every operation and are left out.                                       *)
(*                                                                         *)
(* Four specifications share the module.  Spec is the manager called with  *)
(* its files as they are.  SpecRetry is the manager started on files it    *)
(* cannot load, which are repaired after a failure.  SpecCalendar is the   *)
(* tool handlers and calendar operations (calendar.service.ts, date        *)
(* parser), and SpecServer is runServer and the CallTool handler of        *)
(* server.ts over them; in both the manager is the environment.            *)
(***************************************************************************)
EXTENDS Integers, Sequences, FiniteSets, TLC

\* ---------------------------------------------------------------- bounds
MaxTicks == 1        \* minutes the clock may advance
MaxCalls == 3        \* operations of the manager that are invoked in one run

\* The manager is shared by the tool invocations in flight.  Two slots give every
\* interleaving of two invocations (and of the tasks they leave behind); an
\* invocation that finishes frees its slot for the next one.
Callers == {1, 2}

\* ------------------------------------------------------------- time units
Minute == 60 * 1000
Hour == 3600000
StartTime == 20 * Minute          \* Date.now() in the initial state

\* a refresh window of one hour instead of five minutes
bufferOneHour == 60 * 60 * 1000

\* needsRefresh: const buffer = 5 * 60 * 1000
buffer == 5 * 60 * 1000

VARIABLES
  credFile,      \* config/credentials.json: "absent", "malformed", "nosection", "valid"
  provider,      \* the kind of answers the identity provider gives in this run
  store,         \* data/tokens.json: <<>> absent, Unparseable, or <<record>>
  credentials,   \* this.credentials: "null", "nosection", "valid"
  tokens,        \* this.tokens: <<>> (null) or <<record>>
  oauth2Client,  \* this.oauth2Client: 0 (null) or the number of the handle created
  initialized,   \* this.initialized
  now,           \* Date.now()
  issued,        \* number of token responses the provider has issued so far
  calls,         \* number of operations invoked so far
  pc,            \* per invocation: the await it is suspended on, or "idle"; "crashed"
                 \*   once the process has terminated
  op,            \* per invocation: the public operation it is running
  updated,       \* per invocation: the record handed to saveTokens (<<>> if none)
  creds,         \* per invocation: the refresh response held by getClient (<<>> if none)
  result,        \* per invocation: outcome of its last finished operation
  bg,            \* per invocation: the un-awaited task it spawned: "idle",
                 \*   "write"/"assign" (the 'tokens' listener's saveTokens), "revoke"
  bgUpdated,     \* per invocation: the record the listener's saveTokens holds
  requests,      \* per invocation: refresh requests it has sent to the provider
  wasInitialized,\* history, per invocation: it runs clearTokens(), invoked on the
                 \*   initialized manager
  rejectedSince, \* history: a refresh was rejected, and no code exchange since
  clearedSince,  \* history: a clearTokens() on the initialized manager completed, and
                 \*   no getClient() or code exchange since
  systemZone,    \* the time zone of the process (DEFAULT_TIMEZONE of date-parser.ts)
  tool,          \* the calendar operation called last: "none", "listEvents", "createEvent",
                 \*   "updateEvent", "deleteEvent", "getEvent"; "authStatus" for the
                 \*   handler of auth_status
  args,          \* the arguments it was called with
  cpc,           \* the await the calendar operation is suspended on, "idle", or "done"
  auth,          \* getCalendarClient: <<>> until getClient() has answered, then its outcome
  existingEvent, \* updateEvent: <<>> or the event fetched
  apiRequests,   \* the requests the operation has sent to the calendar API
  toolResult,    \* the ToolResult of the handler
  server,        \* runServer: "starting", "initialize" (awaiting initialize()), "connected"
  authInitialized, \* an initialize() called by the server has succeeded
  name,          \* the tool name of the CallTool request in progress, or "none"
  response       \* the response of the CallTool handler

\* the token manager and its environment
service == <<provider, credFile, store, credentials, tokens, oauth2Client, initialized, now,
             issued, calls, pc, op, updated, creds, result, bg, bgUpdated, requests,
             wasInitialized, rejectedSince, clearedSince>>

\* the calendar operations and the tool handlers
calendar == <<systemZone, tool, args, cpc, auth, existingEvent, apiRequests, toolResult,
              server, authInitialized, name, response>>

vars == <<service, calendar>>

files == <<provider, credFile, store>>
manager == <<credentials, tokens, oauth2Client, initialized>>
locals == <<updated, creds>>
background == <<bg, bgUpdated>>
history == <<wasInitialized, rejectedSince, clearedSince>>

\* ------------------------------------------------------------ token records
\* interface OAuthTokens (access_token, refresh_token?, expiry_date)
OAuthTokens(at, rt, exp) ==
  [access_token |-> at, refresh_token |-> rt, expiry_date |-> exp]

\* content of data/tokens.json that JSON.parse rejects
Unparseable == <<OAuthTokens(-1, -1, -1)>>

\* ------------------------------------------------------------------ results
\* kind: "none", "ok" (promise resolved / value returned) or "error" (rejected /
\* thrown); url: the error message or the status carries the authorization URL;
\* token: this.tokens.access_token when a client was returned; authed,
\* needsRefresh, expiresAt: the fields of the status getStatus() returns
NoResult ==
  [kind |-> "none", op |-> "none", code |-> "none", url |-> FALSE, token |-> 0,
   authed |-> FALSE, needsRefresh |-> FALSE, expiresAt |-> 0]


\* a resolved promise; token is this.tokens.access_token at the moment of return
\* (0 when this.tokens is null)
Returned(o, tok) ==
  [NoResult EXCEPT !.kind = "ok", !.op = o,
                   !.token = IF tok = <<>> THEN 0 ELSE tok[1].access_token]

\* a rejected promise: new CalendarError(message, code); url tells whether the
\* message carries the authorization URL
CalendarError(o, code, withUrl) ==
  [NoResult EXCEPT !.kind = "error", !.op = o, !.code = code, !.url = withUrl]

\* const ErrorCodes: the codes a CalendarError is tagged with
ErrorCodes ==
  {"AUTH_NOT_CONFIGURED", "AUTH_TOKEN_EXPIRED", "AUTH_TOKEN_INVALID", "AUTH_REFRESH_FAILED",
   "INVALID_INPUT", "INVALID_DATE", "INVALID_DURATION", "MISSING_REQUIRED_FIELD",
   "EVENT_NOT_FOUND", "CALENDAR_NOT_FOUND", "RATE_LIMIT_EXCEEDED", "API_ERROR",
   "UNKNOWN_ERROR", "FILE_NOT_FOUND", "PARSE_ERROR"}

\* a rejected promise carrying an error that is no CalendarError (an Error of the
\* provider client library, of exchangeCode line 151 or of the file system); its
\* cause stands where a CalendarError has its code
PlainError(o, cause) ==
  [NoResult EXCEPT !.kind = "error", !.op = o, !.code = cause]

\* ------------------------------------------------------------ pure methods
isAuthenticated(tok, client) == tok # <<>> /\ client # 0

\* needsRefresh with > where the source has >=
needsRefreshStrict(tok, t) ==
  IF tok = <<>> \/ tok[1].expiry_date = 0
    THEN TRUE
    ELSE t > tok[1].expiry_date - buffer

needsRefresh(tok, t) ==
  IF tok = <<>> \/ tok[1].expiry_date = 0
    THEN TRUE
    ELSE t >= tok[1].expiry_date - buffer

\* handleTokenRefresh that takes the refresh token of the response as it comes,
\* absent or not
handleTokenRefreshSpread(cur, t) ==
  OAuthTokens(
    IF t.access_token # 0 THEN t.access_token ELSE cur.access_token,
    t.refresh_token,
    IF t.expiry_date # 0 THEN t.expiry_date ELSE cur.expiry_date)

\* handleTokenRefresh, lines 103-108: the record `updated` built from this.tokens
\* (cur) and the provider's response (t)
handleTokenRefresh(cur, t) ==
  OAuthTokens(
    IF t.access_token # 0 THEN t.access_token ELSE cur.access_token,
    IF t.refresh_token # 0 THEN t.refresh_token ELSE cur.refresh_token,
    IF t.expiry_date # 0 THEN t.expiry_date ELSE cur.expiry_date)

\* createOAuth2Client: "throw" when the credentials have neither an installed nor
\* a web section (or are null), otherwise a new client handle
createOAuth2Client(cred) == IF cred = "valid" THEN "new" ELSE "throw"

\* ------------------------------------------------------- identity provider
\* The provider's answer to a refresh or a code exchange, when n responses were
\* issued before.  Each run fixes what kind of provider it talks to (provider):
\*   "rotating"   new tokens expiring in an hour, with a new refresh token
\*   "keeping"    new access tokens expiring in an hour, without a refresh token
\*   "noExpiry"   a new access token, no refresh token, no expiry
\*   "pastExpiry" a new access token, no refresh token, an expiry already past
\*   "noAccess"   a response without an access token
FarExpiry == StartTime + Hour
PastExpiry == StartTime - Minute

Providers == {"rotating", "keeping", "noExpiry", "pastExpiry", "noAccess"}

Responses(n) ==
  CASE provider = "rotating" -> {OAuthTokens(n + 1, n + 1, FarExpiry)}
    [] provider = "keeping" -> {OAuthTokens(n + 1, 0, FarExpiry)}
    [] provider = "noExpiry" -> {OAuthTokens(n + 1, 0, 0)}
    [] provider = "pastExpiry" -> {OAuthTokens(n + 1, 0, PastExpiry)}
    [] provider = "noAccess" -> {OAuthTokens(0, 0, FarExpiry)}

\* ============================================================ calendar layer
\* The tool handlers (tools/index.ts) and the calendar operations
\* (calendar.service.ts) they call.  Time is counted in minutes; a Date is the
\* number of minutes of its instant (UTC); a wall-clock time is the number of
\* minutes of its calendar fields.  A string argument that the schema leaves
\* optional is <<>> (undefined) or <<text>>.

MinutesPerDay == 24 * 60

\* IANA zones of the runs and their offsets from UTC, in minutes
UtcOffset(z) ==
  CASE z = "Asia/Seoul" -> 9 * 60
    [] z = "America/New_York" -> 0 - 5 * 60
    [] OTHER -> 0

\* a JavaScript string used as a condition: undefined and '' are falsy
Truthy(s) == s # <<>> /\ s[1] # ""

\* x || d on an optional string
OrDefault(s, d) == IF Truthy(s) THEN s[1] ELSE d

\* const DEFAULT_CALENDAR_ID
DEFAULT_CALENDAR_ID == "primary"

\* normalizeTimezone, lines 212-239; sys is DEFAULT_TIMEZONE, the zone of the process
normalizeTimezone(timezone, sys) ==
  IF ~Truthy(timezone) THEN sys
  ELSE CASE timezone[1] \in {"EST", "EDT"} -> "America/New_York"
         [] timezone[1] \in {"CST", "CDT"} -> "America/Chicago"
         [] timezone[1] \in {"MST", "MDT"} -> "America/Denver"
         [] timezone[1] \in {"PST", "PDT"} -> "America/Los_Angeles"
         [] timezone[1] = "KST" -> "Asia/Seoul"
         [] timezone[1] = "JST" -> "Asia/Tokyo"
         [] timezone[1] = "GMT" -> "Etc/GMT"
         [] timezone[1] = "UTC" -> "Etc/UTC"
         [] OTHER -> timezone[1]

\* the day the texts call "tomorrow", as a wall-clock time at 00:00
Tomorrow == 50 * MinutesPerDay

\* chrono.parse(input, refDate, { forwardDate: true }): <<>> when the text holds no
\* date, else the calendar fields it names (wall) and whether the hour is certain;
\* a text without a time of day implies 12:00
chronoParse(input) ==
  CASE input = "tomorrow at 2pm" -> <<[wall |-> Tomorrow + 14 * 60, hour |-> TRUE]>>
    [] input = "tomorrow at 3pm" -> <<[wall |-> Tomorrow + 15 * 60, hour |-> TRUE]>>
    [] input = "tomorrow" -> <<[wall |-> Tomorrow + 12 * 60, hour |-> FALSE]>>
    [] OTHER -> <<>>

\* result.start.date(): the text names calendar fields of the zone of the process
startDate(wall, sys) == wall - UtcOffset(sys)

\* date-fns-tz toZonedTime(date, tz): the Date whose calendar fields in the zone of
\* the process are those of `date` in the zone tz
toZonedTime(date, tz, sys) == date + UtcOffset(tz) - UtcOffset(sys)

\* parseDateTime, lines 29-69: <<>> when it throws INVALID_DATE
parseDateTime(input, tz, sys) ==
  IF chronoParse(input) = <<>> THEN <<>>
  ELSE <<[dateTime |-> toZonedTime(startDate(chronoParse(input)[1].wall, sys), tz, sys),
          timeZone |-> tz,
          isAllDay |-> ~chronoParse(input)[1].hour]>>

\* parseDuration, lines 74-120: <<>> when it throws INVALID_DURATION
parseDuration(input) ==
  CASE input = "1h 30m" -> <<[hours |-> 1, minutes |-> 30]>>
    [] input = "1 hour" -> <<[hours |-> 1, minutes |-> 0]>>
    [] input = "30 minutes" -> <<[hours |-> 0, minutes |-> 30]>>
    [] input = "2" -> <<[hours |-> 2, minutes |-> 0]>>
    [] OTHER -> <<>>

\* calculateEndTime, lines 125-144, for a duration that parses
calculateEndTime(startTime, duration) ==
  LET afterHours == IF duration.hours > 0 THEN startTime + 60 * duration.hours
                                          ELSE startTime
  IN IF duration.minutes > 0 THEN afterHours + duration.minutes ELSE afterHours

\* formatForCalendar, lines 149-168.  format(date, 'yyyy-MM-dd') prints the
\* calendar day of `date` in the zone of the process; formatInTimeZone(date, tz,
\* "yyyy-MM-dd'T'HH:mm:ssXXX") prints the wall-clock time of the instant `date` in
\* the zone tz, followed by the offset of tz
formatForCalendar(date, tz, isAllDay, sys) ==
  IF isAllDay
    THEN [date |-> <<(date + UtcOffset(sys)) \div MinutesPerDay>>,
          dateTime |-> <<>>, timeZone |-> <<>>]
    ELSE [date |-> <<>>,
          dateTime |-> <<[wall |-> date + UtcOffset(tz), offset |-> UtcOffset(tz)]>>,
          timeZone |-> <<tz>>]

\* ----------------------------------------------------------------- events
\* calendar_v3.Schema$Event, the fields the operations read or write
Event(summary, description, location, start, end, attendees, reminders) ==
  [summary |-> summary, description |-> description, location |-> location,
   start |-> start, end |-> end, attendees |-> attendees, reminders |-> reminders]

\* an RFC3339 time of the zone tz at the wall-clock time wall
TimedAt(wall, tz) ==
  [date |-> <<>>, dateTime |-> <<[wall |-> wall, offset |-> UtcOffset(tz)]>>,
   timeZone |-> <<tz>>]

AllDayOn(day) == [date |-> <<day>>, dateTime |-> <<>>, timeZone |-> <<>>]

\* the events the calendar holds under the ids the tools are called with: a timed
\* meeting with every field set, and an all-day entry with none of the optional ones
ExistingEvents ==
  { Event(<<"Planning">>, <<"agenda">>, <<"Room 2">>,
          <<TimedAt(40 * MinutesPerDay + 9 * 60, "Asia/Seoul")>>,
          <<TimedAt(40 * MinutesPerDay + 10 * 60, "Asia/Seoul")>>,
          << <<[email |-> "b@example.com"]>> >>,
          <<[useDefault |-> TRUE, overrides |-> <<>>]>>),
    Event(<<"Holiday">>, <<>>, <<>>, <<AllDayOn(41)>>, <<AllDayOn(42)>>, <<>>, <<>>) }

\* --------------------------------------------------------------- arguments
\* the arguments of a tool call, and the input object a handler passes on; a
\* field the caller left out is <<>>
NoArgs ==
  [eventId |-> <<>>, calendarId |-> <<>>, summary |-> <<>>, description |-> <<>>,
   location |-> <<>>, startTime |-> <<>>, endTime |-> <<>>, duration |-> <<>>,
   timeZone |-> <<>>, attendees |-> <<>>, reminders |-> <<>>, sendUpdates |-> <<>>,
   sendNotifications |-> <<>>, timeMin |-> <<>>, timeMax |-> <<>>, maxResults |-> <<>>]

\* .optional().default(d) of a schema
WithDefault(s, d) == IF s = <<>> THEN <<d>> ELSE s

\* ListEventsSchema.parse followed by the input object of handleListEvents
handleListEvents(a) ==
  [NoArgs EXCEPT !.timeMin = a.timeMin, !.timeMax = a.timeMax,
                 !.maxResults = WithDefault(a.maxResults, 10),
                 !.calendarId = WithDefault(a.calendarId, "primary")]

\* CreateEventSchema.parse followed by the input object of handleCreateEvent
handleCreateEvent(a) ==
  [NoArgs EXCEPT !.summary = a.summary, !.description = a.description,
                 !.location = a.location, !.startTime = a.startTime,
                 !.endTime = a.endTime, !.duration = a.duration,
                 !.timeZone = a.timeZone, !.attendees = a.attendees,
                 !.reminders = a.reminders,
                 !.calendarId = WithDefault(a.calendarId, "primary")]

\* UpdateEventSchema.parse followed by the input object of handleUpdateEvent
handleUpdateEvent(a) ==
  [NoArgs EXCEPT !.eventId = a.eventId, !.summary = a.summary,
                 !.description = a.description, !.location = a.location,
                 !.startTime = a.startTime, !.endTime = a.endTime,
                 !.timeZone = a.timeZone, !.attendees = a.attendees,
                 !.reminders = a.reminders,
                 !.calendarId = WithDefault(a.calendarId, "primary")]

\* DeleteEventSchema.parse followed by the input object of handleDeleteEvent
handleDeleteEvent(a) ==
  [NoArgs EXCEPT !.eventId = a.eventId,
                 !.calendarId = WithDefault(a.calendarId, "primary"),
                 !.sendUpdates = WithDefault(a.sendUpdates, "all")]

\* the input object the handler of the operation o builds from the arguments a;
\* getEvent is called with its parameters as they are
HandlerInput(o, a) ==
  CASE o = "listEvents" -> handleListEvents(a)
    [] o = "createEvent" -> handleCreateEvent(a)
    [] o = "updateEvent" -> handleUpdateEvent(a)
    [] o = "deleteEvent" -> handleDeleteEvent(a)
    [] OTHER -> [NoArgs EXCEPT !.eventId = a.eventId, !.calendarId = a.calendarId]

\* ---------------------------------------------------------------- requests
\* a request to the calendar API: calendar.events.<method>(params)
NoRequest ==
  [method |-> "none", calendarId |-> "", eventId |-> <<>>, requestBody |-> <<>>,
   sendUpdates |-> "", timeMin |-> <<>>, timeMax |-> <<>>, maxResults |-> 0]

\* input.sendNotifications ? 'all' : 'none'
sendUpdatesOf(input) ==
  IF input.sendNotifications # <<>> /\ input.sendNotifications[1] THEN "all" ELSE "none"

\* listEvents, lines 92-110: a bound of the time range, the ISO string of the
\* parsed time or the text as it is when it does not parse
timeBound(text, tz, sys) ==
  IF ~Truthy(text) THEN <<>>
  ELSE IF parseDateTime(text[1], tz, sys) = <<>>
    THEN <<[instant |-> 0, text |-> text[1]]>>
    ELSE <<[instant |-> parseDateTime(text[1], tz, sys)[1].dateTime, text |-> ""]>>

\* new Date() at the moment of the call
CallTime == Tomorrow - MinutesPerDay + 10 * 60

\* listEvents, lines 86-127: the parameters of calendar.events.list
listEventsParams(input, sys) ==
  LET timezone == normalizeTimezone(input.timeZone, sys)
      timeMin == timeBound(input.timeMin, timezone, sys)
      timeMax == timeBound(input.timeMax, timezone, sys)
      unbounded == timeMin = <<>> /\ timeMax = <<>>
  IN [NoRequest EXCEPT
        !.method = "list",
        !.calendarId = OrDefault(input.calendarId, DEFAULT_CALENDAR_ID),
        !.timeMin = IF unbounded THEN <<[instant |-> CallTime, text |-> ""]>>
                                 ELSE timeMin,
        !.timeMax = IF unbounded
                      THEN <<[instant |-> CallTime + 7 * MinutesPerDay, text |-> ""]>>
                      ELSE timeMax,
        !.maxResults = IF input.maxResults = <<>> \/ input.maxResults[1] = 0
                         THEN 10 ELSE input.maxResults[1]]

\* createEvent, lines 140-192: <<>> when parseDateTime or parseDuration throws,
\* else the parameters of calendar.events.insert
createEventParams(input, sys) ==
  LET timezone == normalizeTimezone(input.timeZone, sys)
      startParsed == parseDateTime(input.startTime[1], timezone, sys)
      endParsed == IF Truthy(input.endTime)
                     THEN parseDateTime(input.endTime[1], timezone, sys)
                     ELSE <<>>
      duration == IF Truthy(input.duration) THEN parseDuration(input.duration[1])
                                            ELSE parseDuration("1 hour")
  IN IF startParsed = <<>> THEN <<>>
     ELSE IF Truthy(input.endTime) /\ endParsed = <<>> THEN <<>>
     ELSE IF ~Truthy(input.endTime) /\ duration = <<>> THEN <<>>
     ELSE
       LET endDate == IF Truthy(input.endTime)
                        THEN endParsed[1].dateTime
                        ELSE calculateEndTime(startParsed[1].dateTime, duration[1])
       IN <<[NoRequest EXCEPT
               !.method = "insert",
               !.calendarId = OrDefault(input.calendarId, DEFAULT_CALENDAR_ID),
               !.requestBody =
                  <<Event(input.summary, input.description, input.location,
                          <<formatForCalendar(startParsed[1].dateTime, timezone,
                                              startParsed[1].isAllDay, sys)>>,
                          <<formatForCalendar(endDate, timezone,
                                              startParsed[1].isAllDay, sys)>>,
                          IF input.attendees # <<>> /\ Len(input.attendees[1]) > 0
                            THEN <<[i \in 1..Len(input.attendees[1]) |->
                                      [email |-> input.attendees[1][i]]]>>
                            ELSE <<>>,
                          IF input.reminders # <<>>
                            THEN <<[useDefault |-> FALSE,
                                    overrides |-> input.reminders[1]]>>
                            ELSE <<>>)>>,
               !.sendUpdates = sendUpdatesOf(input)]>>

\* updateEvent, lines 222-260: <<>> when parseDateTime throws, else the event
\* `updatePayload` built from the event fetched and the input
updatePayload(existing, input, sys) ==
  LET timezone == normalizeTimezone(input.timeZone, sys)
      startParsed == IF Truthy(input.startTime)
                       THEN parseDateTime(input.startTime[1], timezone, sys)
                       ELSE <<>>
      endParsed == IF Truthy(input.endTime)
                     THEN parseDateTime(input.endTime[1], timezone, sys)
                     ELSE <<>>
  IN IF Truthy(input.startTime) /\ startParsed = <<>> THEN <<>>
     ELSE IF Truthy(input.endTime) /\ endParsed = <<>> THEN <<>>
     ELSE <<Event(
       IF input.summary # <<>> THEN input.summary ELSE existing.summary,
       IF input.description # <<>> THEN input.description ELSE existing.description,
       IF input.location # <<>> THEN input.location ELSE existing.location,
       IF Truthy(input.startTime)
         THEN <<formatForCalendar(startParsed[1].dateTime, timezone,
                                  startParsed[1].isAllDay, sys)>>
         ELSE existing.start,
       IF Truthy(input.endTime)
         THEN <<formatForCalendar(endParsed[1].dateTime, timezone,
                                  endParsed[1].isAllDay, sys)>>
         ELSE existing.end,
       IF input.attendees # <<>>
         THEN <<[i \in 1..Len(input.attendees[1]) |->
                   [email |-> input.attendees[1][i]]]>>
         ELSE existing.attendees,
       IF input.reminders # <<>>
         THEN <<[useDefault |-> FALSE, overrides |-> input.reminders[1]]>>
         ELSE existing.reminders)>>

\* updateEvent, lines 262-267: the parameters of calendar.events.update
updateEventParams(payload, input) ==
  [NoRequest EXCEPT
     !.method = "update",
     !.calendarId = OrDefault(input.calendarId, DEFAULT_CALENDAR_ID),
     !.eventId = input.eventId,
     !.requestBody = <<payload>>,
     !.sendUpdates = sendUpdatesOf(input)]

\* deleteEvent, lines 278-284: the parameters of calendar.events.delete
deleteEventParams(input) ==
  [NoRequest EXCEPT
     !.method = "delete",
     !.calendarId = OrDefault(input.calendarId, DEFAULT_CALENDAR_ID),
     !.eventId = input.eventId,
     !.sendUpdates = sendUpdatesOf(input)]

\* updateEvent lines 207-210 and getEvent lines 291-294: the parameters of
\* calendar.events.get
eventsGetParams(input) ==
  [NoRequest EXCEPT
     !.method = "get",
     !.calendarId = OrDefault(input.calendarId, DEFAULT_CALENDAR_ID),
     !.eventId = input.eventId]

\* ------------------------------------------------------------ tool results
\* interface ToolResult: success, and for a failure the code between the brackets
\* of the error text and whether the text carries the authorization URL; thrown:
\* the operation was called without a handler and its promise was rejected
NoToolResult == [success |-> FALSE, code |-> "none", url |-> FALSE, thrown |-> FALSE]

\* createSuccessResult
createSuccessResult == [NoToolResult EXCEPT !.success = TRUE]

\* createErrorResult whose text is the code alone
createErrorResultCodeOnly(error) ==
  [NoToolResult EXCEPT !.code = IF error.code \in ErrorCodes THEN error.code
                                                              ELSE "UNKNOWN_ERROR"]

\* createErrorResult, lines 62-117; an error that is no CalendarError carries the
\* HTTP status of the API's answer, or an errors array, or neither, as its cause
createErrorResult(error) ==
  IF error.code \in ErrorCodes
    THEN [NoToolResult EXCEPT !.code = error.code, !.url = error.url]
  ELSE CASE error.code = "401" -> [NoToolResult EXCEPT !.code = "AUTH_TOKEN_INVALID"]
         [] error.code = "403" -> [NoToolResult EXCEPT !.code = "RATE_LIMIT_EXCEEDED"]
         [] error.code = "404" -> [NoToolResult EXCEPT !.code = "EVENT_NOT_FOUND"]
         [] error.code = "errors" -> [NoToolResult EXCEPT !.code = "API_ERROR"]
         [] OTHER -> [NoToolResult EXCEPT !.code = "UNKNOWN_ERROR"]

\* the rejected promise of an operation called without a handler
Thrown(error) ==
  [NoToolResult EXCEPT !.code = error.code, !.url = error.url, !.thrown = TRUE]

\* the outcomes of authService.getClient(): the client, or one of its failures
\* (not configured, unreadable file, no token record, refresh rejected, token
\* file not writable)
GetClientOutcomes ==
  { Returned("getClient", <<OAuthTokens(2, 1, FarExpiry)>>),
    CalendarError("getClient", "AUTH_NOT_CONFIGURED", FALSE),
    CalendarError("getClient", "PARSE_ERROR", FALSE),
    CalendarError("getClient", "AUTH_TOKEN_INVALID", TRUE),
    PlainError("getClient", "refreshAccessToken"),
    PlainError("getClient", "writeFile") }

\* the failures of a request to the calendar API
ApiErrors(o) == { PlainError(o, cause) : cause \in {"401", "403", "404", "errors", "other"} }

\* ------------------------------------------------------------ the server
\* the tools the CallTool handler of server.ts knows, and the operation or
\* handler each one calls
ToolNames == {"list_events", "create_event", "update_event", "delete_event", "auth_status"}

ToolOperation(n) ==
  CASE n = "list_events" -> "listEvents"
    [] n = "create_event" -> "createEvent"
    [] n = "update_event" -> "updateEvent"
    [] n = "delete_event" -> "deleteEvent"
    [] OTHER -> "authStatus"

\* z.string().email(), on the strings the calls carry
IsEmail(s) == s \in {"a@example.com", "b@example.com"}

\* z.array(z.string().email()).optional()
EmailsSchema(attendees) ==
  attendees = <<>> \/ \A i \in 1..Len(attendees[1]) : IsEmail(attendees[1][i])

\* z.array(z.object({ method: z.enum(['email', 'popup']), minutes:
\* z.number().min(0) })).optional()
RemindersSchema(reminders) ==
  reminders = <<>>
    \/ \A i \in 1..Len(reminders[1]) :
         reminders[1][i].method \in {"email", "popup"} /\ reminders[1][i].minutes >= 0

\* z.string().min(1)
NonEmptyString(s) == s # <<>> /\ s[1] # ""

\* <Schema>.parse(args) of the tool n succeeds; auth_status is called without a
\* parse, its declared schema has no properties
SchemaAccepts(n, a) ==
  CASE n = "list_events" ->
         a.maxResults = <<>> \/ (a.maxResults[1] >= 1 /\ a.maxResults[1] <= 2500)
    [] n = "create_event" ->
         /\ NonEmptyString(a.summary)
         /\ a.startTime # <<>>
         /\ EmailsSchema(a.attendees)
         /\ RemindersSchema(a.reminders)
    [] n = "update_event" ->
         /\ NonEmptyString(a.eventId)
         /\ EmailsSchema(a.attendees)
         /\ RemindersSchema(a.reminders)
    [] n = "delete_event" ->
         /\ NonEmptyString(a.eventId)
         /\ a.sendUpdates = <<>> \/ a.sendUpdates[1] \in {"all", "externalOnly", "none"}
    [] OTHER -> TRUE

\* the response of the CallTool handler: the text of its content ("result": the
\* ToolResult of the handler; "Unknown tool"; "error": the message of the error
\* caught), the isError flag, and raised: the handler's promise was rejected
NoResponse == [text |-> "none", isError |-> FALSE, raised |-> FALSE]

\* lines 119-126
ResultResponse == [NoResponse EXCEPT !.text = "result"]

\* lines 108-116
UnknownToolResponse == [NoResponse EXCEPT !.text = "Unknown tool"]

\* a handler without the try of line 80: the error leaves the handler
Uncaught == [NoResponse EXCEPT !.raised = TRUE]

\* lines 127-138: the catch of the CallTool handler
CatchResponse == [NoResponse EXCEPT !.text = "error", !.isError = TRUE]

\* the failures of authService.initialize(): lines 51-56, 69, 82, 86
InitializeFailures ==
  { CalendarError("initialize", code, FALSE) : code \in {"AUTH_NOT_CONFIGURED", "PARSE_ERROR"} }

\* ---------------------------------------------------------------- initial
\* expiry_date of the record a previous run left in the store: absent, on the
\* edge of the refresh window (inside it one minute later), just outside it
\* (on its edge one minute later)
InitialExpiries == {0, StartTime + 5 * Minute, StartTime + 6 * Minute}

InitialStores ==
  {<<>>, Unparseable}
    \cup { <<OAuthTokens(1, 1, e)>> : e \in InitialExpiries }

Init ==
  /\ credFile \in {"absent", "malformed", "nosection", "valid"}
  \* the provider is contacted only through a client, which needs valid credentials
  /\ provider \in IF credFile = "valid" THEN Providers ELSE {"rotating"}
  \* the providers with unusual answers are met with no record (a code exchange
  \* reaches them) or with one on the edge of the window (a refresh reaches them)
  /\ store \in IF provider \in {"rotating", "keeping"}
                THEN InitialStores
                ELSE {<<>>, <<OAuthTokens(1, 1, StartTime + 5 * Minute)>>}
  /\ credentials = "null"
  /\ tokens = <<>>
  /\ oauth2Client = 0
  /\ initialized = FALSE
  /\ now = StartTime
  /\ issued = 1
  /\ calls = 0
  /\ pc = [c \in Callers |-> "idle"]
  /\ op = [c \in Callers |-> "none"]
  /\ updated = [c \in Callers |-> <<>>]
  /\ creds = [c \in Callers |-> <<>>]
  /\ result = [c \in Callers |-> NoResult]
  /\ bg = [c \in Callers |-> "idle"]
  /\ bgUpdated = [c \in Callers |-> <<>>]
  /\ requests = [c \in Callers |-> 0]
  /\ wasInitialized = [c \in Callers |-> FALSE]
  /\ rejectedSince = FALSE
  /\ clearedSince = FALSE
  \* no calendar operation is called while the manager is examined on its own
  /\ systemZone = "Etc/UTC"
  /\ tool = "none"
  /\ args = NoArgs
  /\ cpc = "idle"
  /\ auth = <<>>
  /\ existingEvent = <<>>
  /\ apiRequests = <<>>
  /\ toolResult = NoToolResult
  /\ server = "connected"
  /\ authInitialized = FALSE
  /\ name = "none"
  /\ response = NoResponse

\* an invocation slot is free: its last operation finished and so did the
\* un-awaited task that operation left behind
Free(c) == pc[c] = "idle" /\ bg[c] = "idle"

\* invocation c is handed the operation o; a new invocation takes the lowest
\* free slot (the slots are interchangeable)
Invoke(c, o) ==
  /\ Free(c)
  /\ \A d \in Callers : d < c => ~Free(d)
  /\ calls < MaxCalls
  /\ calls' = calls + 1
  /\ op' = [op EXCEPT ![c] = o]
  /\ wasInitialized' = [wasInitialized EXCEPT ![c] = initialized /\ o = "clearTokens"]
  /\ rejectedSince' = (rejectedSince /\ o # "exchangeCode")
  /\ clearedSince' = (clearedSince /\ o \notin {"exchangeCode", "getClient"})

\* refresh requests sent so far by the operation invocation c is running (an
\* operation that is just being invoked has sent none)
Sent(c) == IF pc[c] = "idle" THEN 0 ELSE requests[c]

\* the operation of invocation c is suspended on the await a
Await(c, a) ==
  /\ pc' = [pc EXCEPT ![c] = a]
  /\ result' = [result EXCEPT ![c] = NoResult]
  /\ requests' = [requests EXCEPT ![c] = Sent(c) + IF a = "awaitRefresh" THEN 1 ELSE 0]
  /\ UNCHANGED <<updated, creds>>

\* the operation of invocation c finishes with outcome r
Finish(c, r) ==
  /\ pc' = [pc EXCEPT ![c] = "idle"]
  /\ result' = [result EXCEPT ![c] = r]
  /\ requests' = [requests EXCEPT ![c] = Sent(c)]
  /\ updated' = [updated EXCEPT ![c] = <<>>]
  /\ creds' = [creds EXCEPT ![c] = <<>>]

\* ------------------------------------------------------------- getClient
\* getClient that looks at needsRefresh() before it looks at isAuthenticated()
getClientBodyRefreshFirst(c, tok, client) ==
  IF client = 0
    THEN Finish(c, CalendarError("getClient", "AUTH_NOT_CONFIGURED", FALSE))
  ELSE IF needsRefresh(tok, now)
    THEN Await(c, "awaitRefresh")
  ELSE IF ~isAuthenticated(tok, client)
    THEN Finish(c, CalendarError("getClient", "AUTH_TOKEN_INVALID", TRUE))
  ELSE Finish(c, Returned("getClient", tok))

\* getClient, lines 124-135, run with the manager fields given (they are the
\* current ones, or the ones initialize() has just assigned): everything up to
\* the await of refreshAccessToken
getClientBody(c, tok, client) ==
  IF client = 0
    THEN Finish(c, CalendarError("getClient", "AUTH_NOT_CONFIGURED", FALSE))
  ELSE IF ~isAuthenticated(tok, client)
    \* generateAuthUrl() cannot throw here: the client exists
    THEN Finish(c, CalendarError("getClient", "AUTH_TOKEN_INVALID", TRUE))
  ELSE IF needsRefresh(tok, now)
    THEN Await(c, "awaitRefresh")
  ELSE Finish(c, Returned("getClient", tok))

\* ------------------------------------------------------------- initialize
\* initialize() without the test of line 38
StartInitializeAlways(c) ==
  /\ Invoke(c, "initialize")
  /\ Await(c, "loadCredentials")
  /\ UNCHANGED calendar
  /\ UNCHANGED <<files, manager, now, issued, background>>

\* initialize() / getClient() called: line 38 / line 123
StartInitialize(c) ==
  /\ Invoke(c, "initialize")
  /\ IF initialized
       THEN Finish(c, Returned("initialize", tokens))
       ELSE Await(c, "loadCredentials")
  /\ UNCHANGED calendar
  /\ UNCHANGED <<files, manager, now, issued, background>>

StartGetClient(c) ==
  /\ Invoke(c, "getClient")
  /\ IF initialized
       THEN getClientBody(c, tokens, oauth2Client)
       ELSE Await(c, "loadCredentials")
  /\ UNCHANGED calendar
  /\ UNCHANGED <<files, manager, now, issued, background>>

\* loadCredentials that keeps the credentials an earlier load has left in memory
loadCredentialsCached(c) ==
  /\ pc[c] = "loadCredentials"
  /\ IF credentials # "null"
       THEN /\ UNCHANGED credentials
            /\ Await(c, "loadTokens")
     ELSE IF credFile = "absent"
       THEN /\ Finish(c, CalendarError(op[c], "AUTH_NOT_CONFIGURED", FALSE))
            /\ UNCHANGED credentials
     ELSE IF credFile = "malformed"
       THEN /\ Finish(c, CalendarError(op[c], "PARSE_ERROR", FALSE))
            /\ UNCHANGED credentials
     ELSE /\ credentials' = credFile
          /\ Await(c, "loadTokens")
  /\ UNCHANGED calendar
  /\ UNCHANGED <<files, tokens, oauth2Client, initialized, now, issued, calls, op, history,
                 background>>

\* loadCredentials: readFile(CREDENTIALS_PATH) has completed
loadCredentials(c) ==
  /\ pc[c] = "loadCredentials"
  /\ IF credFile = "absent"
       THEN /\ Finish(c, CalendarError(op[c], "AUTH_NOT_CONFIGURED", FALSE))
            /\ UNCHANGED credentials
     ELSE IF credFile = "malformed"
       THEN /\ Finish(c, CalendarError(op[c], "PARSE_ERROR", FALSE))
            /\ UNCHANGED credentials
     ELSE /\ credentials' = credFile
          /\ Await(c, "loadTokens")
  /\ UNCHANGED calendar
  /\ UNCHANGED <<files, tokens, oauth2Client, initialized, now, issued, calls, op, history,
                 background>>

\* loadTokens that takes the missing file for a fault, as it takes the unparseable
loadTokensStrict(c) ==
  /\ pc[c] = "loadTokens"
  /\ IF store = Unparseable \/ store = <<>>
       THEN /\ Finish(c, CalendarError(op[c], "PARSE_ERROR", FALSE))
            /\ UNCHANGED <<tokens, oauth2Client, initialized>>
     ELSE /\ tokens' = store
          /\ IF createOAuth2Client(credentials) = "throw"
               THEN /\ Finish(c, CalendarError(op[c], "AUTH_NOT_CONFIGURED", FALSE))
                    /\ UNCHANGED <<oauth2Client, initialized>>
               ELSE /\ oauth2Client' = oauth2Client + 1
                    /\ initialized' = TRUE
                    /\ IF op[c] = "getClient"
                         THEN getClientBody(c, store, oauth2Client + 1)
                         ELSE Finish(c, Returned("initialize", store))
  /\ UNCHANGED calendar
  /\ UNCHANGED <<files, credentials, now, issued, calls, op, history, background>>

\* loadTokens: readFile(TOKENS_PATH) has completed; then createOAuth2Client(),
\* initialized = true, and (under getClient) the rest of getClient up to its await
loadTokens(c) ==
  /\ pc[c] = "loadTokens"
  /\ IF store = Unparseable
       THEN /\ Finish(c, CalendarError(op[c], "PARSE_ERROR", FALSE))
            /\ UNCHANGED <<tokens, oauth2Client, initialized>>
     ELSE /\ tokens' = store
          /\ IF createOAuth2Client(credentials) = "throw"
               THEN /\ Finish(c, CalendarError(op[c], "AUTH_NOT_CONFIGURED", FALSE))
                    /\ UNCHANGED <<oauth2Client, initialized>>
               ELSE /\ oauth2Client' = oauth2Client + 1
                    /\ initialized' = TRUE
                    /\ IF op[c] = "getClient"
                         THEN getClientBody(c, store, oauth2Client + 1)
                         ELSE Finish(c, Returned("initialize", store))
  /\ UNCHANGED calendar
  /\ UNCHANGED <<files, credentials, now, issued, calls, op, history, background>>

\* ------------------------------------------------- getClient: the refresh
\* line 132: the provider rejects the refresh; getClient catches nothing
refreshRejected(c) ==
  /\ pc[c] = "awaitRefresh"
  /\ Finish(c, PlainError("getClient", "refreshAccessToken"))
  /\ rejectedSince' = TRUE
  /\ UNCHANGED calendar
  /\ UNCHANGED <<files, manager, now, issued, calls, op, wasInitialized, clearedSince,
                 background>>

\* lines 132-133 and 94: the provider answers the refresh with t.  The client
\* emits 'tokens', whose listener starts handleTokenRefresh(t) without awaiting
\* it; then getClient calls handleTokenRefresh(credentials).  Both run up to
\* the first file operation of saveTokens.
refreshAccessToken(c) ==
  /\ pc[c] = "awaitRefresh"
  /\ \E t \in Responses(issued) :
       /\ issued' = issued + 1
       /\ IF tokens = <<>>
            \* line 102: if (!this.tokens) return;  then line 135
            THEN /\ Finish(c, Returned("getClient", tokens))
                 /\ UNCHANGED background
            ELSE /\ bg' = [bg EXCEPT ![c] = "write"]
                 /\ bgUpdated' = [bgUpdated EXCEPT ![c] = <<handleTokenRefresh(tokens[1], t)>>]
                 /\ creds' = [creds EXCEPT ![c] = <<t>>]
                 /\ updated' = [updated EXCEPT ![c] = <<handleTokenRefresh(tokens[1], t)>>]
                 /\ pc' = [pc EXCEPT ![c] = "write"]
                 /\ UNCHANGED <<result, requests>>
  /\ UNCHANGED calendar
  /\ UNCHANGED <<files, manager, now, calls, op, history>>

\* ------------------------------------------------------------- saveTokens
\* saveTokens that assigns this.tokens before it writes the file
saveTokensAssignFirst(c) ==
  /\ pc[c] = "write"
  /\ tokens' = updated[c]
  /\ \/ /\ store' = updated[c]
        /\ Await(c, "assign")
     \/ /\ Finish(c, PlainError(op[c], "writeFile"))
        /\ UNCHANGED store
  /\ UNCHANGED calendar
  /\ UNCHANGED <<provider, credFile, credentials, oauth2Client, initialized, now, issued,
                 calls, op, history, background>>

\* lines 74-76: access/mkdir, then writeFile, which succeeds or throws
saveTokensWrite(c) ==
  /\ pc[c] = "write"
  /\ \/ /\ store' = updated[c]
        /\ Await(c, "assign")
     \/ /\ Finish(c, PlainError(op[c], "writeFile"))
        /\ UNCHANGED store
  /\ UNCHANGED calendar
  /\ UNCHANGED <<provider, credFile, manager, now, issued, calls, op, history, background>>

\* line 77: this.tokens = tokens; the caller (getClient line 135, exchangeCode
\* line 160) then returns
saveTokensAssign(c) ==
  /\ pc[c] = "assign"
  /\ tokens' = updated[c]
  /\ Finish(c, Returned(op[c], updated[c]))
  /\ rejectedSince' = (rejectedSince /\ op[c] # "exchangeCode")
  /\ clearedSince' = (clearedSince /\ op[c] # "exchangeCode")
  /\ UNCHANGED calendar
  /\ UNCHANGED <<files, credentials, oauth2Client, initialized, now, issued, calls, op,
                 wasInitialized, background>>

\* the same two steps of the saveTokens started by the 'tokens' listener; its
\* promise is discarded (void), so a failed write reaches nobody
listenerWrite(c) ==
  /\ bg[c] = "write"
  /\ \/ /\ store' = bgUpdated[c]
        /\ bg' = [bg EXCEPT ![c] = "assign"]
        /\ UNCHANGED bgUpdated
     \/ /\ bg' = [bg EXCEPT ![c] = "idle"]
        /\ bgUpdated' = [bgUpdated EXCEPT ![c] = <<>>]
        /\ UNCHANGED store
  /\ UNCHANGED calendar
  /\ UNCHANGED <<provider, credFile, manager, now, issued, pc, calls, op, history, locals,
                 result, requests>>

listenerAssign(c) ==
  /\ bg[c] = "assign"
  /\ tokens' = bgUpdated[c]
  /\ bg' = [bg EXCEPT ![c] = "idle"]
  /\ bgUpdated' = [bgUpdated EXCEPT ![c] = <<>>]
  /\ UNCHANGED calendar
  /\ UNCHANGED <<files, credentials, oauth2Client, initialized, now, issued, pc, calls, op,
                 history, locals, result, requests>>

\* ----------------------------------------------------------- exchangeCode
\* lines 147-150
StartExchangeCode(c) ==
  /\ Invoke(c, "exchangeCode")
  /\ IF oauth2Client = 0
       THEN Finish(c, CalendarError("exchangeCode", "AUTH_NOT_CONFIGURED", FALSE))
       ELSE Await(c, "awaitExchange")
  /\ UNCHANGED calendar
  /\ UNCHANGED <<files, manager, now, issued, background>>

\* line 150: the provider rejects the code
getTokenRejected(c) ==
  /\ pc[c] = "awaitExchange"
  /\ Finish(c, PlainError("exchangeCode", "getToken"))
  /\ UNCHANGED calendar
  /\ UNCHANGED <<files, manager, now, issued, calls, op, history, background>>

\* getToken that stamps every record with now + one hour, whatever expiry the
\* provider returned
getTokenDefaultExpiry(c) ==
  /\ pc[c] = "awaitExchange"
  /\ \E t \in Responses(issued) :
       /\ issued' = issued + 1
       /\ IF t.access_token = 0
            THEN Finish(c, PlainError("exchangeCode", "No access token received"))
            ELSE /\ updated' = [updated EXCEPT ![c] =
                        <<OAuthTokens(t.access_token, t.refresh_token, now + Hour)>>]
                 /\ pc' = [pc EXCEPT ![c] = "write"]
                 /\ UNCHANGED <<result, creds, requests>>
  /\ UNCHANGED calendar
  /\ UNCHANGED <<files, manager, now, calls, op, history, background>>

\* lines 150-159: the provider answers the code with t
getToken(c) ==
  /\ pc[c] = "awaitExchange"
  /\ \E t \in Responses(issued) :
       /\ issued' = issued + 1
       /\ IF t.access_token = 0
            THEN Finish(c, PlainError("exchangeCode", "No access token received"))
            ELSE /\ updated' = [updated EXCEPT ![c] =
                        <<OAuthTokens(t.access_token, t.refresh_token,
                              IF t.expiry_date # 0 THEN t.expiry_date ELSE now + Hour)>>]
                 /\ pc' = [pc EXCEPT ![c] = "write"]
                 /\ UNCHANGED <<result, creds, requests>>
  /\ UNCHANGED calendar
  /\ UNCHANGED <<files, manager, now, calls, op, history, background>>

\* ------------------------------------------------------------ clearTokens
\* lines 188-190, up to the await of unlink; revokeCredentials() is not awaited
StartClearTokens(c) ==
  /\ Invoke(c, "clearTokens")
  /\ tokens' = <<>>
  /\ bg' = [bg EXCEPT ![c] = IF oauth2Client # 0 THEN "revoke" ELSE "idle"]
  /\ Await(c, "unlink")
  /\ UNCHANGED calendar
  /\ UNCHANGED <<files, credentials, oauth2Client, initialized, now, issued, bgUpdated>>

\* line 190: unlink deletes the file, or throws (no file, no permission) and
\* the empty catch swallows it
unlink(c) ==
  /\ pc[c] = "unlink"
  /\ \/ store' = <<>>
     \/ UNCHANGED store
  /\ Finish(c, Returned("clearTokens", <<>>))
  /\ clearedSince' = (clearedSince \/ wasInitialized[c])
  /\ UNCHANGED calendar
  /\ UNCHANGED <<provider, credFile, manager, now, issued, calls, op, wasInitialized,
                 rejectedSince, background>>

\* the process terminates: its memory is gone, the files stay, every invocation
\* and task in flight is lost ("crashed")
Terminate ==
  /\ pc' = [d \in Callers |-> "crashed"]
  /\ bg' = [d \in Callers |-> "crashed"]
  /\ credentials' = "null"
  /\ tokens' = <<>>
  /\ oauth2Client' = 0
  /\ initialized' = FALSE
  /\ updated' = [d \in Callers |-> <<>>]
  /\ creds' = [d \in Callers |-> <<>>]
  /\ bgUpdated' = [d \in Callers |-> <<>>]
  /\ UNCHANGED calendar
  /\ UNCHANGED <<files, now, issued, calls, op, history, result, requests>>

\* line 189: the promise revokeCredentials() returned is settled; it was neither
\* awaited nor given a handler.  Resolved (the provider has revoked the token):
\* nobody looks at the answer.  Rejected (the provider answers with an error, or
\* the client holds no access token to revoke): an unhandled rejection, on which
\* the runtime either only warns or terminates the process (its default).
revokeCredentials(c) ==
  /\ bg[c] = "revoke"
  /\ \/ /\ bg' = [bg EXCEPT ![c] = "idle"]
        /\ UNCHANGED calendar
        /\ UNCHANGED <<files, manager, now, issued, pc, calls, op, history, locals, result,
                       bgUpdated, requests>>
     \/ Terminate

\* ------------------------------------------ generateAuthUrl and getStatus
\* generateAuthUrl that hands out a URL whatever the manager holds
generateAuthUrlOutcomeLenient(cred, client) == "url"

\* generateAuthUrl, lines 139-143: "throw" or "url"
generateAuthUrlOutcome(cred, client) ==
  IF client # 0 THEN "url"
  ELSE IF cred = "null" THEN "throw"
  ELSE IF createOAuth2Client(cred) = "throw" THEN "throw"
  ELSE "url"

\* this.oauth2Client after generateAuthUrl (line 141 creates it when missing)
generateAuthUrlClient(cred, client) ==
  IF client = 0 /\ cred # "null" /\ createOAuth2Client(cred) = "new"
    THEN client + 1
    ELSE client

generateAuthUrl(c) ==
  /\ Invoke(c, "generateAuthUrl")
  /\ oauth2Client' = generateAuthUrlClient(credentials, oauth2Client)
  /\ IF generateAuthUrlOutcome(credentials, oauth2Client) = "throw"
       THEN Finish(c, CalendarError("generateAuthUrl", "AUTH_NOT_CONFIGURED", FALSE))
       ELSE Finish(c, [Returned("generateAuthUrl", <<>>) EXCEPT !.url = TRUE])
  /\ UNCHANGED calendar
  /\ UNCHANGED <<files, credentials, tokens, initialized, now, issued, background>>

\* getStatus that refreshes a token it finds inside the refresh window
getStatusRefreshing(c) ==
  /\ Invoke(c, "getStatus")
  /\ IF isAuthenticated(tokens, oauth2Client) /\ needsRefresh(tokens, now)
       THEN Await(c, "awaitRefresh")
       ELSE Finish(c, [Returned("getStatus", <<>>) EXCEPT
                        !.authed = isAuthenticated(tokens, oauth2Client)])
  /\ UNCHANGED calendar
  /\ UNCHANGED <<files, manager, now, issued, background>>

\* getStatus whose needsRefresh flag is computed from the hard expiry
getStatusHardExpiry(c) ==
  /\ Invoke(c, "getStatus")
  /\ LET authed == isAuthenticated(tokens, oauth2Client)
     IN /\ oauth2Client' = IF authed THEN oauth2Client
                            ELSE generateAuthUrlClient(credentials, oauth2Client)
        /\ Finish(c, [Returned("getStatus", <<>>) EXCEPT
                        !.authed = authed,
                        !.needsRefresh = (tokens = <<>> \/ now >= tokens[1].expiry_date),
                        !.expiresAt = IF tokens # <<>> THEN tokens[1].expiry_date ELSE 0,
                        !.url = ~authed /\
                                generateAuthUrlOutcome(credentials, oauth2Client) = "url"])
  /\ UNCHANGED calendar
  /\ UNCHANGED <<files, credentials, tokens, initialized, now, issued, background>>

\* getStatus, lines 169-184
getStatus(c) ==
  /\ Invoke(c, "getStatus")
  /\ LET authed == isAuthenticated(tokens, oauth2Client)
     IN /\ oauth2Client' = IF authed THEN oauth2Client
                            ELSE generateAuthUrlClient(credentials, oauth2Client)
        /\ Finish(c, [Returned("getStatus", <<>>) EXCEPT
                        !.authed = authed,
                        !.needsRefresh = needsRefresh(tokens, now),
                        !.expiresAt = IF tokens # <<>> THEN tokens[1].expiry_date ELSE 0,
                        !.url = ~authed /\
                                generateAuthUrlOutcome(credentials, oauth2Client) = "url"])
  /\ UNCHANGED calendar
  /\ UNCHANGED <<files, credentials, tokens, initialized, now, issued, background>>

\* ------------------------------------------------------------------ clock
Tick ==
  /\ now < StartTime + MaxTicks * Minute
  /\ now' = now + Minute
  /\ UNCHANGED calendar
  /\ UNCHANGED <<files, manager, issued, calls, pc, op, locals, result, background,
                 requests, history>>

Next ==
  \/ \E c \in Callers : StartInitialize(c)
  \/ \E c \in Callers : StartGetClient(c)
  \/ \E c \in Callers : loadCredentials(c)
  \/ \E c \in Callers : loadTokens(c)
  \/ \E c \in Callers : refreshRejected(c)
  \/ \E c \in Callers : refreshAccessToken(c)
  \/ \E c \in Callers : saveTokensWrite(c)
  \/ \E c \in Callers : saveTokensAssign(c)
  \/ \E c \in Callers : listenerWrite(c)
  \/ \E c \in Callers : listenerAssign(c)
  \/ \E c \in Callers : StartExchangeCode(c)
  \/ \E c \in Callers : getTokenRejected(c)
  \/ \E c \in Callers : getToken(c)
  \/ \E c \in Callers : StartClearTokens(c)
  \/ \E c \in Callers : unlink(c)
  \/ \E c \in Callers : revokeCredentials(c)
  \/ \E c \in Callers : generateAuthUrl(c)
  \/ \E c \in Callers : getStatus(c)
  \/ Tick

Spec == Init /\ [][Next]_vars

\* ================================================== calendar layer: behaviour
\* One call of a calendar operation at a time, from its handler to its tool
\* result (cpc: "idle", "getClient", "get", "request", "done").  The token
\* manager is the environment here: getClient() answers with any of its outcomes,
\* and the manager's own variables stay as they are.

\* the arguments the operations are called with
ListEventsArgs ==
  { [NoArgs EXCEPT !.timeMin = tmin, !.timeMax = tmax, !.maxResults = n] :
      tmin \in {<<>>, <<"tomorrow">>, <<"someday">>},
      tmax \in {<<>>, <<"tomorrow at 3pm">>},
      n \in {<<>>, <<5>>} }

Attendees == {<<>>, << <<>> >>, << <<"a@example.com">> >>}

Reminders == {<<>>, << <<[method |-> "popup", minutes |-> 10]>> >>}

CreateEventArgs ==
  { [NoArgs EXCEPT !.summary = <<"Standup">>, !.startTime = <<st>>, !.endTime = et,
                   !.duration = du, !.timeZone = tz, !.attendees = at,
                   !.reminders = re] :
      st \in {"tomorrow at 2pm", "tomorrow", "someday"},
      et \in {<<>>, <<"tomorrow at 3pm">>},
      du \in {<<>>, <<"30 minutes">>, <<"1h 30m">>, <<"a while">>},
      tz \in {<<>>, <<"America/New_York">>},
      at \in Attendees,
      re \in Reminders }

UpdateEventArgs ==
  { [NoArgs EXCEPT !.eventId = <<"evt1">>, !.summary = su, !.description = de,
                   !.location = lo, !.startTime = st, !.endTime = et,
                   !.timeZone = tz, !.attendees = at, !.reminders = re] :
      su \in {<<>>, <<"">>, <<"Standup">>},
      de \in {<<>>, <<"notes">>},
      lo \in {<<>>, <<"Room 1">>},
      st \in {<<>>, <<"">>, <<"tomorrow at 2pm">>, <<"tomorrow">>, <<"someday">>},
      et \in {<<>>, <<"tomorrow at 3pm">>},
      tz \in {<<>>, <<"KST">>, <<"America/New_York">>},
      at \in Attendees,
      re \in Reminders }

DeleteEventArgs ==
  { [NoArgs EXCEPT !.eventId = <<"evt1">>, !.calendarId = ca, !.sendUpdates = su] :
      ca \in {<<>>, <<"work">>},
      su \in {<<>>, <<"all">>, <<"externalOnly">>, <<"none">>} }

GetEventArgs ==
  { [NoArgs EXCEPT !.eventId = <<"evt1">>, !.calendarId = ca] :
      ca \in {<<>>, <<"work">>} }

Operations == {"listEvents", "createEvent", "updateEvent", "deleteEvent", "getEvent"}

OperationArgs(o) ==
  CASE o = "listEvents" -> ListEventsArgs
    [] o = "createEvent" -> CreateEventArgs
    [] o = "updateEvent" -> UpdateEventArgs
    [] o = "deleteEvent" -> DeleteEventArgs
    [] OTHER -> GetEventArgs

\* the zones the process may run in
SystemZones == {"Asia/Seoul", "Etc/UTC"}

InitCalendar ==
  /\ credFile = "valid"
  /\ provider = "rotating"
  /\ store = <<>>
  /\ credentials = "null"
  /\ tokens = <<>>
  /\ oauth2Client = 0
  /\ initialized = FALSE
  /\ now = StartTime
  /\ issued = 1
  /\ calls = 0
  /\ pc = [c \in Callers |-> "idle"]
  /\ op = [c \in Callers |-> "none"]
  /\ updated = [c \in Callers |-> <<>>]
  /\ creds = [c \in Callers |-> <<>>]
  /\ result = [c \in Callers |-> NoResult]
  /\ bg = [c \in Callers |-> "idle"]
  /\ bgUpdated = [c \in Callers |-> <<>>]
  /\ requests = [c \in Callers |-> 0]
  /\ wasInitialized = [c \in Callers |-> FALSE]
  /\ rejectedSince = FALSE
  /\ clearedSince = FALSE
  /\ systemZone \in SystemZones
  /\ tool = "none"
  /\ args = NoArgs
  /\ cpc = "idle"
  /\ auth = <<>>
  /\ existingEvent = <<>>
  /\ apiRequests = <<>>
  /\ toolResult = NoToolResult
  /\ server = "connected"
  /\ authInitialized = FALSE
  /\ name = "none"
  /\ response = NoResponse

\* the operation ends with the error thrown: withErrorHandling turns it into a
\* tool result; getEvent has no handler and its promise is rejected
Fail(error) ==
  /\ cpc' = "done"
  /\ toolResult' = IF tool = "getEvent" THEN Thrown(error) ELSE createErrorResult(error)
  /\ UNCHANGED apiRequests

\* the operation sends a request to the calendar API and awaits the answer
Send(request, await) ==
  /\ cpc' = await
  /\ apiRequests' = Append(apiRequests, request)
  /\ UNCHANGED toolResult

\* a handler is called (tools/index.ts) and calls its operation, or getEvent is
\* called: everything up to `await authService.getClient()` of getCalendarClient
CallOperation(o, a) ==
  /\ cpc = "idle"
  /\ tool' = o
  /\ args' = a
  /\ cpc' = "getClient"
  /\ auth' = <<>>
  /\ existingEvent' = <<>>
  /\ apiRequests' = <<>>
  /\ toolResult' = NoToolResult
  /\ UNCHANGED <<service, systemZone, server, authInitialized>>

\* server.ts lines 119-126: when the operation has ended under a handler the
\* CallTool handler called, the handler's ToolResult goes into the response
respond ==
  /\ response' = IF cpc' = "done" /\ name # "none" THEN ResultResponse ELSE response
  /\ UNCHANGED <<server, authInitialized, name>>

\* createEvent, lines 144-157: the code of the CalendarError thrown while the
\* times are parsed, or "none"
createEventError(input, sys) ==
  LET timezone == normalizeTimezone(input.timeZone, sys)
  IN IF parseDateTime(input.startTime[1], timezone, sys) = <<>> THEN "INVALID_DATE"
     ELSE IF Truthy(input.endTime)
       THEN IF parseDateTime(input.endTime[1], timezone, sys) = <<>>
              THEN "INVALID_DATE" ELSE "none"
     ELSE IF Truthy(input.duration) /\ parseDuration(input.duration[1]) = <<>>
       THEN "INVALID_DURATION"
     ELSE "none"

\* getCalendarClient resumes with the outcome of getClient(): the operation ends
\* with its failure, or runs up to its first request to the calendar API
getCalendarClient ==
  /\ cpc = "getClient"
  /\ \E r \in GetClientOutcomes :
       /\ auth' = <<r>>
       /\ LET input == HandlerInput(tool, args)
          IN IF r.kind = "error" THEN Fail(r)
             ELSE CASE tool = "listEvents" ->
                         Send(listEventsParams(input, systemZone), "request")
                    [] tool = "createEvent" ->
                         IF createEventError(input, systemZone) # "none"
                           THEN Fail(CalendarError(tool, createEventError(input, systemZone),
                                                   FALSE))
                           ELSE Send(createEventParams(input, systemZone)[1], "request")
                    [] tool = "updateEvent" -> Send(eventsGetParams(input), "get")
                    [] tool = "deleteEvent" -> Send(deleteEventParams(input), "request")
                    [] OTHER -> Send(eventsGetParams(input), "request")
  /\ respond
  /\ UNCHANGED <<service, systemZone, tool, args, existingEvent>>

\* updateEvent resumes with the answer to calendar.events.get: the request is
\* rejected, or carries no data, or carries the event, from which the payload is
\* built and sent
eventsGet ==
  /\ cpc = "get"
  /\ \/ /\ \E e \in ApiErrors(tool) : Fail(e)
        /\ UNCHANGED existingEvent
     \/ /\ Fail(CalendarError(tool, "EVENT_NOT_FOUND", FALSE))
        /\ UNCHANGED existingEvent
     \/ \E e \in ExistingEvents :
          /\ existingEvent' = <<e>>
          /\ LET input == HandlerInput(tool, args)
                 payload == updatePayload(e, input, systemZone)
             IN IF payload = <<>>
                  THEN Fail(CalendarError(tool, "INVALID_DATE", FALSE))
                  ELSE Send(updateEventParams(payload[1], input), "request")
  /\ respond
  /\ UNCHANGED <<service, systemZone, tool, args, auth>>

\* the operation resumes with the answer to its last request: the request is
\* rejected, or carries no data where the operation needs some, or succeeds
apiResponse ==
  /\ cpc = "request"
  /\ \/ \E e \in ApiErrors(tool) : Fail(e)
     \/ /\ tool \in {"createEvent", "updateEvent"}
        /\ Fail(CalendarError(tool, "API_ERROR", FALSE))
     \/ /\ tool = "getEvent"
        /\ Fail(CalendarError(tool, "EVENT_NOT_FOUND", FALSE))
     \/ /\ cpc' = "done"
        /\ toolResult' = createSuccessResult
        /\ UNCHANGED apiRequests
  /\ respond
  /\ UNCHANGED <<service, systemZone, tool, args, auth, existingEvent>>

\* the result is handed to the caller (server.ts lines 119-126 put it into the
\* content of the response), and the next call may come
returnResult ==
  /\ cpc = "done"
  /\ tool' = "none"
  /\ args' = NoArgs
  /\ cpc' = "idle"
  /\ auth' = <<>>
  /\ existingEvent' = <<>>
  /\ apiRequests' = <<>>
  /\ toolResult' = NoToolResult
  /\ name' = "none"
  /\ response' = NoResponse
  /\ UNCHANGED <<service, systemZone, server, authInitialized>>

NextCalendar ==
  \/ \E o \in Operations : \E a \in OperationArgs(o) :
       CallOperation(o, a) /\ UNCHANGED <<name, response>>
  \/ getCalendarClient
  \/ eventsGet
  \/ apiResponse
  \/ returnResult

SpecCalendar == InitCalendar /\ [][NextCalendar]_vars

\* ================================================================ the server
\* runServer and the CallTool handler of server.ts, over the handlers and the
\* calendar operations above.  The token manager is the environment here too:
\* initialize() succeeds, or fails as long as no initialize() has succeeded.

\* the arguments the tools are called with: ones their schema accepts, and ones it
\* rejects (a number out of range, a required string missing or empty, a value
\* outside the enum, an attendee that is no e-mail address)
ServerArgs(n) ==
  CASE n = "list_events" ->
         { [NoArgs EXCEPT !.maxResults = m] : m \in {<<>>, <<5>>, <<0>>, <<2501>>} }
    [] n = "create_event" ->
         { [NoArgs EXCEPT !.summary = su, !.startTime = st, !.attendees = at] :
             su \in {<<>>, <<"">>, <<"Standup">>},
             st \in {<<>>, <<"tomorrow at 2pm">>, <<"someday">>},
             at \in {<<>>, << <<"a@example.com">> >>, << <<"nobody">> >>} }
    [] n = "update_event" ->
         { [NoArgs EXCEPT !.eventId = id, !.summary = su, !.reminders = re] :
             id \in {<<>>, <<"">>, <<"evt1">>},
             su \in {<<>>, <<"Standup">>},
             re \in {<<>>, << <<[method |-> "sms", minutes |-> 10]>> >>} }
    [] n = "delete_event" ->
         { [NoArgs EXCEPT !.eventId = id, !.sendUpdates = su] :
             id \in {<<>>, <<"evt1">>},
             su \in {<<>>, <<"none">>, <<"some">>} }
    [] OTHER -> { NoArgs, [NoArgs EXCEPT !.eventId = <<"evt1">>] }

\* the tool names of the calls: the five tools and two names the server does not
\* know
CalledNames == ToolNames \cup {"get_event", ""}

InitServer ==
  /\ credFile = "valid"
  /\ provider = "rotating"
  /\ store = <<>>
  /\ credentials = "null"
  /\ tokens = <<>>
  /\ oauth2Client = 0
  /\ initialized = FALSE
  /\ now = StartTime
  /\ issued = 1
  /\ calls = 0
  /\ pc = [c \in Callers |-> "idle"]
  /\ op = [c \in Callers |-> "none"]
  /\ updated = [c \in Callers |-> <<>>]
  /\ creds = [c \in Callers |-> <<>>]
  /\ result = [c \in Callers |-> NoResult]
  /\ bg = [c \in Callers |-> "idle"]
  /\ bgUpdated = [c \in Callers |-> <<>>]
  /\ requests = [c \in Callers |-> 0]
  /\ wasInitialized = [c \in Callers |-> FALSE]
  /\ rejectedSince = FALSE
  /\ clearedSince = FALSE
  /\ systemZone \in SystemZones
  /\ tool = "none"
  /\ args = NoArgs
  /\ cpc = "idle"
  /\ auth = <<>>
  /\ existingEvent = <<>>
  /\ apiRequests = <<>>
  /\ toolResult = NoToolResult
  /\ server = "starting"
  /\ authInitialized = FALSE
  /\ name = "none"
  /\ response = NoResponse

\* runServer, lines 147-153: up to `await authService.initialize()`
runServer ==
  /\ server = "starting"
  /\ server' = "initialize"
  /\ UNCHANGED <<service, systemZone, tool, args, cpc, auth, existingEvent, apiRequests,
                 toolResult, authInitialized, name, response>>

\* runServer that gives up when initialize() has failed
connectInitialized ==
  /\ server = "initialize"
  /\ \/ authInitialized' = TRUE /\ server' = "connected"
     \/ authInitialized' = FALSE /\ server' = "stopped"
  /\ UNCHANGED <<service, systemZone, tool, args, cpc, auth, existingEvent, apiRequests,
                 toolResult, name, response>>

\* runServer, lines 153-161: initialize() has succeeded, or has failed and the
\* catch has logged the warning; then server.connect(transport)
connect ==
  /\ server = "initialize"
  /\ authInitialized' \in BOOLEAN
  /\ server' = "connected"
  /\ UNCHANGED <<service, systemZone, tool, args, cpc, auth, existingEvent, apiRequests,
                 toolResult, name, response>>

\* the CallTool handler returns the response r without having called a handler
Answer(a, r) ==
  /\ cpc = "idle"
  /\ tool' = "none"
  /\ args' = a
  /\ cpc' = "done"
  /\ auth' = <<>>
  /\ existingEvent' = <<>>
  /\ apiRequests' = <<>>
  /\ toolResult' = NoToolResult
  /\ response' = r
  /\ UNCHANGED <<service, systemZone, server, authInitialized>>

\* the CallTool handler, lines 77-117, called with the tool name n and the
\* arguments a: an unknown name is answered at once; the arguments are parsed by
\* the schema of the tool, and a failed parse is caught at line 127; else the
\* handler of the tool is called, and runs up to its first await
CallTool(n, a) ==
  /\ server = "connected"
  /\ name' = n
  /\ IF n \notin ToolNames THEN Answer(a, UnknownToolResponse)
     ELSE IF ~SchemaAccepts(n, a) THEN Answer(a, CatchResponse)
     ELSE IF n = "auth_status"
       \* handleGetAuthStatus up to `await authService.initialize()`
       THEN /\ cpc = "idle"
            /\ tool' = "authStatus"
            /\ args' = a
            /\ cpc' = "initialize"
            /\ auth' = <<>>
            /\ existingEvent' = <<>>
            /\ apiRequests' = <<>>
            /\ toolResult' = NoToolResult
            /\ response' = NoResponse
            /\ UNCHANGED <<service, systemZone, server, authInitialized>>
     ELSE /\ CallOperation(ToolOperation(n), a)
          /\ response' = NoResponse

\* handleGetAuthStatus, tools/index.ts lines 230-237, resumes: initialize() has
\* succeeded and getStatus() gives the status, or it has thrown and the catch
\* turns the error into a tool result; the CallTool handler returns the result
handleGetAuthStatus ==
  /\ cpc = "initialize"
  /\ \/ /\ toolResult' = createSuccessResult
        /\ authInitialized' = TRUE
     \/ /\ ~authInitialized
        /\ \E e \in InitializeFailures : toolResult' = createErrorResult(e)
        /\ UNCHANGED authInitialized
  /\ cpc' = "done"
  /\ response' = ResultResponse
  /\ UNCHANGED <<service, systemZone, tool, args, auth, existingEvent, apiRequests, server,
                 name>>

NextServer ==
  \/ runServer
  \/ connect
  \/ \E n \in CalledNames : \E a \in ServerArgs(n) : CallTool(n, a)
  \/ handleGetAuthStatus
  \/ getCalendarClient
  \/ eventsGet
  \/ apiResponse
  \/ returnResult

SpecServer == InitServer /\ [][NextServer]_vars

\* ================================================ the manager and its files
\* The token manager started on files it cannot load, and an operator who
\* repairs a file after a call has reported that the load failed.  Every
\* operation of the manager may be called, as under Spec.

\* the failures of initialize(): lines 51-56, 69, 82, 86
LoadFailures ==
  { CalendarError(o, code, FALSE) :
      o \in {"initialize", "getClient"}, code \in {"AUTH_NOT_CONFIGURED", "PARSE_ERROR"} }

\* an initialize() or getClient() has ended with a failure of the load, and no
\* later call has taken its place
LoadFailureReported == \E c \in Callers : pc[c] = "idle" /\ result[c] \in LoadFailures

InitRetry ==
  /\ Init
  /\ credFile # "valid" \/ store = Unparseable

\* config/credentials.json is replaced by a well-formed file with a client section
fixCredentials ==
  /\ LoadFailureReported
  /\ credFile # "valid"
  /\ credFile' = "valid"
  /\ UNCHANGED <<provider, store, manager, now, issued, calls, pc, op, locals, result,
                 background, requests, history>>
  /\ UNCHANGED calendar

\* data/tokens.json is deleted, or replaced by a well-formed record
fixTokens ==
  /\ LoadFailureReported
  /\ store = Unparseable
  /\ store' \in {<<>>, <<OAuthTokens(1, 1, StartTime + 5 * Minute)>>}
  /\ UNCHANGED <<provider, credFile, manager, now, issued, calls, pc, op, locals, result,
                 background, requests, history>>
  /\ UNCHANGED calendar

NextRetry ==
  \/ Next
  \/ fixCredentials
  \/ fixTokens

SpecRetry == InitRetry /\ [][NextRetry]_vars

\* =================================================================== claims
\* the refresh safety window, in milliseconds
FiveMinutes == 300000

\* this step is the invocation of operation o, by slot c
Invoked(c, o) ==
  /\ calls' = calls + 1
  /\ Free(c)
  /\ \A d \in Callers : d < c => ~Free(d)
  /\ op'[c] = o

\* getClient invocations that are in flight and have sent a refresh request
Refreshing == { c \in Callers : op[c] = "getClient" /\ pc[c] # "idle" /\ requests[c] > 0 }

\* getClient invocations that hold the provider's answer to their refresh
Refreshed == { c \in Callers : op[c] = "getClient" /\ pc[c] \in {"write", "assign"} }

NotAuthenticated == CalendarError("getClient", "AUTH_TOKEN_INVALID", TRUE)

\* C1 (as claimed): among the getClient() calls in flight together, at most one
\* has sent a refresh request to the identity provider.
C1_SingleFlight == Cardinality(Refreshing) <= 1

\* C2 (as claimed): the getClient() calls in flight together that have received
\* the provider's answer hold the answer of one and the same refresh.
C2_SharedOutcome ==
  \A c, d \in Refreshed : creds[c] = creds[d]

\* C3: when getClient() (or the 'tokens' listener) handles a refresh response,
\* the record it builds, writes to the store and assigns to this.tokens has the
\* response's refresh token if the response carries one, and otherwise the
\* refresh token of the record held in memory when the response is handled.
C3_RefreshTokenRetention ==
  [][\A c \in Callers :
       /\ (pc[c] = "awaitRefresh" /\ pc'[c] = "write") =>
            LET t == creds'[c][1]
                rt == IF t.refresh_token # 0 THEN t.refresh_token
                                             ELSE tokens[1].refresh_token
            IN /\ updated'[c][1].refresh_token = rt
               /\ bgUpdated'[c][1].refresh_token = rt
       /\ (op[c] = "getClient" /\ pc[c] = "write" /\ pc'[c] = "assign") =>
            store' = updated[c]
       /\ (op[c] = "getClient" /\ pc[c] = "assign" /\ pc'[c] = "idle") =>
            tokens' = updated[c]
       /\ (bg[c] = "write" /\ bg'[c] = "assign") => store' = bgUpdated[c]
       /\ (bg[c] = "assign" /\ bg'[c] = "idle") => tokens' = bgUpdated[c]
    ]_vars

\* C3 witness: a getClient() has written to the store a record that keeps the old
\* refresh token, the refresh response having carried none.
C3_Witness ==
  \E c \in Callers :
    /\ op[c] = "getClient" /\ pc[c] = "assign"
    /\ creds[c][1].refresh_token = 0
    /\ updated[c][1].refresh_token # 0
    /\ store = updated[c]

\* C4 (as claimed): when the provider rejects the refresh sent by getClient(),
\* the manager is left without a token record and the store without a record.
C4_RefreshFailureDowngrades ==
  [][\A c \in Callers :
       (pc[c] = "awaitRefresh"
          /\ result'[c] = PlainError("getClient", "refreshAccessToken"))
       => (tokens' = <<>> /\ store' = <<>>)
    ]_vars

\* C5 (as claimed): a getClient() invoked after a refresh was rejected, with no
\* code exchange in between, fails with the not-authenticated error carrying the
\* authorization URL and sends no refresh request.
C5_FailFastAfterRefreshFailure ==
  [][\A c \in Callers :
       (rejectedSince /\ Invoked(c, "getClient"))
       => (result'[c] = NotAuthenticated /\ pc'[c] = "idle" /\ requests'[c] = 0)
    ]_vars

\* C6 (as claimed): the first getClient() invoked after a clearTokens() completed
\* on the initialized manager, with no code exchange in between, fails with the
\* not-authenticated error carrying the authorization URL.
C6_NotAuthenticatedAfterClear ==
  [][\A c \in Callers :
       (clearedSince /\ Invoked(c, "getClient")) => result'[c] = NotAuthenticated
    ]_vars

\* C7: a getStatus() call writes nothing to the token store, deletes nothing from
\* it and sends no request to the identity provider: no exchange, no refresh, no
\* revoke is started by it, and it suspends on nothing.
C7_GetStatusNoExternalEffect ==
  [][\A c \in Callers :
       Invoked(c, "getStatus") =>
         /\ store' = store
         /\ issued' = issued
         /\ bg' = bg
         /\ pc'[c] = "idle"
         /\ requests'[c] = 0
         /\ \A d \in Callers \ {c} : pc'[d] = pc[d] /\ requests'[d] = requests[d]
    ]_vars

\* C7 witness: getStatus() has reported an authenticated session that needs a
\* refresh, and has returned without sending one.
C7_Witness ==
  \E c \in Callers :
    /\ pc[c] = "idle" /\ result[c].op = "getStatus"
    /\ result[c].authed /\ result[c].needsRefresh
    /\ requests[c] = 0

\* C8 (as claimed): a getStatus() call leaves the credential bundle, the token
\* record, the client handle and the initialized flag as they were.
C8_GetStatusPureRead ==
  [][\A c \in Callers :
       Invoked(c, "getStatus") =>
         UNCHANGED <<credentials, tokens, oauth2Client, initialized>>
    ]_vars

\* the step in which the getClient() of slot c reaches line 124 with the manager
\* initialized: its invocation on an initialized manager, or the completion of
\* the initialize() it awaited
Decides(c) ==
  \/ Invoked(c, "getClient") /\ initialized
  \/ /\ op[c] = "getClient" /\ pc[c] = "loadTokens" /\ pc'[c] \notin {"loadTokens", "crashed"}
     /\ store # Unparseable /\ credentials = "valid"

\* C9: a getClient() that finds a token record whose expiry is absent, or at most
\* five minutes ahead (now >= expiry_date - 5 min), sends one refresh request;
\* no getClient() ever sends a second one, and one that holds the provider's
\* answer has sent exactly one.
C9_RefreshInsideWindow ==
  [][\A c \in Callers :
       /\ (Decides(c) /\ tokens' # <<>>
             /\ (tokens'[1].expiry_date = 0
                   \/ now >= tokens'[1].expiry_date - FiveMinutes))
          => (pc'[c] = "awaitRefresh" /\ requests'[c] = 1)
       /\ requests'[c] <= 1
       /\ (op[c] = "getClient" /\ pc[c] \in {"write", "assign"}) => requests'[c] = 1
    ]_vars

\* C9 witness: a getClient() has returned the client after one refresh request.
C9_Witness ==
  \E c \in Callers :
    /\ pc[c] = "idle" /\ result[c].op = "getClient" /\ result[c].kind = "ok"
    /\ requests[c] = 1

\* C10: a getClient() invoked on the initialized manager whose token record
\* expires more than five minutes ahead sends no refresh request, writes nothing
\* to the store, leaves the token record unchanged and returns the client at once.
C10_NoRefreshOutsideWindow ==
  [][\A c \in Callers :
       (Invoked(c, "getClient") /\ initialized /\ tokens # <<>>
          /\ tokens[1].expiry_date > now + FiveMinutes)
       => /\ result'[c] = Returned("getClient", tokens)
          /\ pc'[c] = "idle"
          /\ requests'[c] = 0
          /\ store' = store
          /\ tokens' = tokens
    ]_vars

\* C10 witness: a getClient() has returned the client without any refresh while
\* the token record expires more than five minutes ahead.
C10_Witness ==
  \E c \in Callers :
    /\ pc[c] = "idle" /\ result[c].op = "getClient" /\ result[c].kind = "ok"
    /\ requests[c] = 0
    /\ tokens # <<>> /\ tokens[1].expiry_date > now + FiveMinutes

\* ------------------------------------------------------------ C11 .. C20
\* the initialize() of slot c completes its last read (of the token store)
InitializeEnds(c) == op[c] = "initialize" /\ pc[c] = "loadTokens" /\ pc'[c] = "idle"

\* the second operation invoked was an exchangeCode(), it ran in slot 1 after the
\* first operation had finished, and nothing else was invoked since
ExchangeAlone == calls = 2 /\ op[1] = "exchangeCode"

\* first two parts of the first-authentication scenario: initialize() without a
\* persisted record leaves the session unauthenticated; an exchangeCode() run on
\* its own builds its record from the provider's access token and expiry, and
\* leaves it in memory and in the store, the session authenticated
C11_UpToExchange ==
  /\ \A c \in Callers :
       (InitializeEnds(c) /\ credentials = "valid" /\ store = <<>>)
       => (initialized' /\ tokens' = <<>> /\ ~isAuthenticated(tokens', oauth2Client'))
  /\ \A c \in Callers :
       (pc[c] = "awaitExchange" /\ pc'[c] = "write")
       => \E t \in Responses(issued) :
            /\ updated'[c][1].access_token = t.access_token
            /\ t.expiry_date # 0 => updated'[c][1].expiry_date = t.expiry_date
  /\ (ExchangeAlone /\ pc[1] = "assign" /\ pc'[1] = "idle")
       => /\ result'[1].kind = "ok"
          /\ isAuthenticated(tokens', oauth2Client')
          /\ tokens' = updated[1]
          /\ store' = updated[1]

\* the getClient() that follows the successful exchangeCode() of the scenario
GetClientAfterExchange ==
  /\ ExchangeAlone /\ initialized
  /\ result[1].kind = "ok"
  /\ Invoked(1, "getClient")

\* C11 (as claimed): initialize() with credentials and no persisted record leaves
\* the session unauthenticated; a successful exchangeCode() then makes it
\* authenticated with the provider's access token and expiry in the store; the
\* getClient() that follows returns the client and sends no refresh request.
C11_FirstAuthentication ==
  [][/\ C11_UpToExchange
     /\ GetClientAfterExchange
          => (result'[1] = Returned("getClient", tokens) /\ pc'[1] = "idle"
                /\ requests'[1] = 0)
    ]_vars

\* C11 (amended): the same, the getClient() that follows returning the client
\* without a refresh request when the expiry the provider returned lies more
\* than five minutes ahead, and sending one refresh request when it does not.
C11_FirstAuthenticationFresh ==
  [][/\ C11_UpToExchange
     /\ GetClientAfterExchange =>
          IF tokens[1].expiry_date > now + FiveMinutes
            THEN /\ result'[1] = Returned("getClient", tokens)
                 /\ pc'[1] = "idle"
                 /\ requests'[1] = 0
            ELSE pc'[1] = "awaitRefresh" /\ requests'[1] = 1
    ]_vars

\* C11 witness: the scenario has run to its end: the one response the provider
\* issued was the code exchange's (its record carries no refresh token, so no
\* refresh built it), the record is in memory and in the store, and the third
\* operation, a getClient(), has returned the client without a refresh.
C11_Witness ==
  /\ calls = 3 /\ issued = 2 /\ initialized
  /\ pc[1] = "idle" /\ result[1] = Returned("getClient", tokens) /\ requests[1] = 0
  /\ tokens = <<OAuthTokens(2, 0, FarExpiry)>>
  /\ store = tokens

\* C12: a record becomes this.tokens only by being read from the store
\* (loadTokens) or by the last step of a saveTokens whose write of that very
\* record to the store has succeeded: the step that completes the write puts the
\* record in the store and leaves this.tokens alone, a failed write leaves
\* this.tokens alone, and no other step puts a record in this.tokens.
C12_PersistBeforePublish ==
  [][/\ \A c \in Callers :
          /\ (pc[c] = "write" /\ pc'[c] = "assign")
               => (store' = updated[c] /\ updated'[c] = updated[c] /\ tokens' = tokens)
          /\ (pc[c] = "write" /\ pc'[c] = "idle") => (tokens' = tokens /\ store' = store)
          /\ (bg[c] = "write" /\ bg'[c] = "assign")
               => (store' = bgUpdated[c] /\ bgUpdated'[c] = bgUpdated[c] /\ tokens' = tokens)
          /\ (bg[c] = "write" /\ bg'[c] = "idle") => (tokens' = tokens /\ store' = store)
          /\ pc'[c] = "assign" => pc[c] \in {"write", "assign"}
          /\ bg'[c] = "assign" => bg[c] \in {"write", "assign"}
     /\ (tokens' # tokens /\ tokens' # <<>>)
          => \/ \E c \in Callers :
                  pc[c] = "assign" /\ pc'[c] = "idle" /\ tokens' = updated[c]
             \/ \E c \in Callers :
                  bg[c] = "assign" /\ bg'[c] = "idle" /\ tokens' = bgUpdated[c]
             \/ \E c \in Callers :
                  pc[c] = "loadTokens" /\ pc'[c] \notin {"loadTokens", "crashed"} /\ tokens' = store
    ]_vars

\* C12 witness: the record of a code exchange is in the store and not yet in
\* this.tokens, the exchangeCode() being between its write and its assignment.
C12_Witness ==
  \E c \in Callers :
    /\ op[c] = "exchangeCode" /\ pc[c] = "assign"
    /\ store = updated[c]
    /\ tokens # updated[c]

\* C13 (as claimed): when the write of a refreshed record to the store fails in
\* getClient(), this.tokens is the refreshed record all the same and the
\* getClient() returns the client.
C13_WriteFailureRecoverable ==
  [][\A c \in Callers :
       (op[c] = "getClient" /\ pc[c] = "write" /\ pc'[c] = "idle")
       => (tokens' = updated[c] /\ result'[c].kind = "ok")
    ]_vars

\* C14 (as claimed): the write of a refresh never replaces, in the store, the
\* record of a response the provider gave later (responses are numbered in the
\* order the provider gives them, and the number is the access token).
C14_OrderedPersistence ==
  [][\A c \in Callers :
       (\/ op[c] = "getClient" /\ pc[c] = "write" /\ pc'[c] = "assign"
        \/ bg[c] = "write" /\ bg'[c] = "assign")
       => ~(store # <<>> /\ store'[1].access_token < store[1].access_token)
    ]_vars

\* this step is the return of the client by the getClient() of slot c
GetClientReturns(c) ==
  /\ pc[c] # "idle" \/ Invoked(c, "getClient")
  /\ pc'[c] = "idle"
  /\ result'[c].op = "getClient" /\ result'[c].kind = "ok"

\* C15 (as claimed): when getClient() returns the client, the record this.tokens
\* holds at that moment has not expired: now < expiry_date.
C15_NonExpiredHandle ==
  [][\A c \in Callers :
       (GetClientReturns(c) /\ tokens' # <<>>) => now < tokens'[1].expiry_date
    ]_vars

\* C16: a getClient() that reaches line 124 with credentials loaded, the client
\* made and no token record (it is invoked on the initialized manager without a
\* record, or the initialize() it awaits finds no record in the store) fails at
\* once with the not-authenticated error carrying the authorization URL, sends no
\* refresh request, leaves the store as it is and this.tokens null.
C16_GetClientWithoutRecord ==
  [][\A c \in Callers :
       (\/ Invoked(c, "getClient") /\ initialized /\ tokens = <<>>
        \/ /\ op[c] = "getClient" /\ pc[c] = "loadTokens" /\ pc'[c] \notin {"loadTokens", "crashed"}
           /\ credentials = "valid" /\ store = <<>>)
       => /\ result'[c] = NotAuthenticated
          /\ pc'[c] = "idle"
          /\ requests'[c] = 0
          /\ store' = store
          /\ tokens' = <<>>
          /\ issued' = issued
    ]_vars

\* C16 witness: a getClient() has failed with the not-authenticated error on the
\* initialized manager, which holds no token record.
C16_Witness ==
  \E c \in Callers :
    /\ pc[c] = "idle" /\ result[c] = NotAuthenticated /\ requests[c] = 0
    /\ initialized /\ credentials = "valid" /\ tokens = <<>>

\* C17: an initialize() invoked on the initialized manager returns at once: it
\* suspends on no read of the credential file or of the token store, makes no
\* client handle and leaves credentials, token record, client handle, initialized
\* flag and store as they are.
C17_InitializeIdempotent ==
  [][\A c \in Callers :
       (Invoked(c, "initialize") /\ initialized)
       => /\ pc'[c] = "idle"
          /\ result'[c] = Returned("initialize", tokens)
          /\ UNCHANGED <<credentials, tokens, oauth2Client, initialized, store>>
    ]_vars

\* C17 witness: the second operation invoked, an initialize(), has returned while
\* the first, a getClient() that had initialized the manager, awaits its refresh;
\* the one client handle is the one the getClient() made.
C17_Witness ==
  /\ calls = 2 /\ initialized /\ oauth2Client = 1
  /\ op[1] = "getClient" /\ pc[1] = "awaitRefresh"
  /\ pc[2] = "idle" /\ result[2] = Returned("initialize", tokens)

\* the initialize() of slot c ends in this step, after either of its reads
InitializeFinishes(c) ==
  /\ op[c] = "initialize"
  /\ pc[c] \in {"loadCredentials", "loadTokens"}
  /\ pc'[c] = "idle"

\* C18 (as claimed): an initialize() that finds the credential file absent,
\* unparseable or without an 'installed' and a 'web' section fails with a
\* CalendarError of code AUTH_NOT_CONFIGURED.
C18_AuthNotConfigured ==
  [][\A c \in Callers :
       (InitializeFinishes(c) /\ credFile \in {"absent", "malformed", "nosection"})
       => result'[c] = CalendarError("initialize", "AUTH_NOT_CONFIGURED", FALSE)
    ]_vars

\* C19: an initialize() that has loaded valid credentials and finds no file in
\* the token store completes with success: the manager is initialized, has its
\* client, holds no token record, and isAuthenticated() is false.
C19_MissingStoreIsNoFault ==
  [][\A c \in Callers :
       (InitializeEnds(c) /\ credentials = "valid" /\ store = <<>>)
       => /\ result'[c] = Returned("initialize", <<>>)
          /\ initialized'
          /\ oauth2Client' # 0
          /\ tokens' = <<>>
          /\ ~isAuthenticated(tokens', oauth2Client')
          /\ store' = <<>>
    ]_vars

\* C19 witness: the first operation, an initialize(), has completed with success
\* on an empty token store, and the manager holds no token record.
C19_Witness ==
  /\ calls = 1 /\ pc[1] = "idle" /\ result[1] = Returned("initialize", <<>>)
  /\ initialized /\ oauth2Client = 1 /\ tokens = <<>> /\ store = <<>>

\* C20 (as claimed): an initialize() that has loaded valid credentials and finds
\* a token store it cannot parse ends with the manager initialized and without a
\* token record; a getClient() in the same place fails with the not-authenticated
\* error carrying the authorization URL.
C20_UnreadableStoreUnauthenticated ==
  [][\A c \in Callers :
       (pc[c] = "loadTokens" /\ pc'[c] \notin {"loadTokens", "crashed"}
          /\ credentials = "valid" /\ store = Unparseable)
       => /\ initialized' /\ tokens' = <<>>
          /\ op[c] = "initialize" => result'[c] = Returned("initialize", <<>>)
          /\ op[c] = "getClient" => result'[c] = NotAuthenticated
    ]_vars

\* ------------------------------------------------------------ C21 .. C30
\* the outcome is a rejection with a CalendarError (an error tagged with a code)
IsCalendarError(r) == r.kind = "error" /\ r.code \in ErrorCodes

\* C21: generateAuthUrl() returns at once, writes nothing to the store, sends
\* nothing to the provider and leaves the token record alone; it returns an
\* authorization URL when this.credentials is a bundle with a client section, and
\* fails with a CalendarError of code AUTH_NOT_CONFIGURED when this.credentials is
\* null or has no client section.
C21_GenerateAuthUrl ==
  [][\A c \in Callers :
       Invoked(c, "generateAuthUrl") =>
         /\ pc'[c] = "idle"
         /\ store' = store /\ issued' = issued /\ bg' = bg /\ tokens' = tokens
         /\ requests'[c] = 0
         /\ \A d \in Callers \ {c} : pc'[d] = pc[d] /\ requests'[d] = requests[d]
         /\ IF credentials = "valid"
              THEN /\ result'[c].kind = "ok" /\ result'[c].url
                   /\ oauth2Client' # 0
              ELSE /\ result'[c] = CalendarError("generateAuthUrl", "AUTH_NOT_CONFIGURED", FALSE)
                   /\ oauth2Client' = 0
    ]_vars

\* C21 witness: generateAuthUrl() has failed with AUTH_NOT_CONFIGURED on a manager
\* that has loaded no credentials.
C21_Witness ==
  \E c \in Callers :
    /\ pc[c] = "idle"
    /\ result[c] = CalendarError("generateAuthUrl", "AUTH_NOT_CONFIGURED", FALSE)
    /\ credentials = "null"

\* C22 (as claimed): an exchangeCode() whose code the provider rejects, or whose
\* response carries no access token, fails with a CalendarError tagged with a
\* code, leaving this.tokens and the store as they are.
C22_ExchangeFailure ==
  [][\A c \in Callers :
       (pc[c] = "awaitExchange" /\ pc'[c] = "idle")
       => /\ IsCalendarError(result'[c])
          /\ tokens' = tokens
          /\ store' = store
    ]_vars

\* C23 (as claimed): when a clearTokens() completes, it completes without error,
\* this.tokens is null and the store holds no record.
C23_ClearTokensClears ==
  [][\A c \in Callers :
       (op[c] = "clearTokens" /\ pc[c] = "unlink" /\ pc'[c] = "idle")
       => /\ result'[c] = Returned("clearTokens", <<>>)
          /\ tokens' = <<>>
          /\ store' = <<>>
    ]_vars

\* C24 (as claimed): clearTokens() sets this.tokens to null and starts the revoke
\* exactly when the client handle exists; however the revoke ends, the process
\* goes on: the invocations in flight stay where they are (the clearTokens() among
\* them, which then completes) and this.tokens stays as it is.
C24_BestEffortRevoke ==
  [][\A c \in Callers :
       /\ Invoked(c, "clearTokens")
            => (tokens' = <<>> /\ (bg'[c] = "revoke" <=> oauth2Client # 0))
       /\ (bg[c] = "revoke" /\ bg'[c] # "revoke")
            => (bg'[c] = "idle" /\ pc' = pc /\ tokens' = tokens)
    ]_vars

\* C25: the status getStatus() returns has isAuthenticated as isAuthenticated()
\* gives it; an authorization URL only if isAuthenticated is false; expiresAt
\* exactly when this.tokens is a record with an expiry; and, when this.tokens is a
\* record, needsRefresh exactly when now >= expiry_date - 5 minutes.
C25_StatusShape ==
  [][\A c \in Callers :
       Invoked(c, "getStatus") =>
         LET r == result'[c]
         IN /\ r.kind = "ok" /\ r.op = "getStatus"
            /\ r.authed = isAuthenticated(tokens, oauth2Client)
            /\ r.url => ~r.authed
            /\ (r.expiresAt # 0) = (tokens # <<>> /\ tokens[1].expiry_date # 0)
            /\ tokens # <<>> =>
                 (r.needsRefresh = (now >= tokens[1].expiry_date - FiveMinutes))
    ]_vars

\* C25 witness: getStatus() has returned a status without a URL for a record that
\* expires in exactly five minutes: authenticated, expiry known, refresh needed
\* although the record has not expired.
C25_Witness ==
  \E c \in Callers :
    /\ pc[c] = "idle" /\ result[c].op = "getStatus"
    /\ result[c].authed /\ ~result[c].url
    /\ result[c].expiresAt = now + FiveMinutes
    /\ result[c].needsRefresh

\* C26 (as claimed): every operation of the manager that has failed has failed
\* with a CalendarError tagged with one of the error codes.
C26_TypedErrors ==
  \A c \in Callers : result[c].kind = "error" => IsCalendarError(result[c])

\* C27 (as claimed): when the failure of a refresh request surfaces to the caller
\* of getClient(), the request has been sent twice.  (The rejection of the model
\* is a failure of any kind, a transient network error included: the code does
\* not look at the error.)
C27_SingleRetry ==
  [][\A c \in Callers :
       (pc[c] = "awaitRefresh" /\ pc'[c] = "idle" /\ result'[c].kind = "error")
       => requests[c] = 2
    ]_vars

\* ---------------------------------------------------------------------- C28
\* getClient() has answered the operation in progress (or the last one) with a
\* failure
GetClientFailed == auth # <<>> /\ auth[1].kind = "error"

\* the order of an operation: no request to the calendar API is sent before
\* getClient() has answered, and none at all after it answered with a failure
AcquireBeforeCall ==
  /\ auth = <<>> => apiRequests = <<>>
  /\ GetClientFailed => (apiRequests = <<>> /\ cpc = "done" /\ ~toolResult.success)

\* C28 as stated (under SpecCalendar): every calendar operation obtains the client
\* through getClient() before it sends any request to the calendar API, and when
\* getClient() fails the operation sends no request and the tool result is a
\* failure whose error text contains the authorization URL.
C28_AcquireBeforeCall ==
  /\ AcquireBeforeCall
  /\ GetClientFailed => toolResult.url

\* C28, amended (under SpecCalendar): every calendar operation obtains the client
\* through getClient() before it sends any request to the calendar API; when
\* getClient() fails the operation sends no request and its result is a failure,
\* and the error text contains the authorization URL exactly when the failure is
\* the not-authenticated one (the other failures of getClient() carry no URL).
C28_AcquireBeforeCallNotAuthenticated ==
  /\ AcquireBeforeCall
  /\ GetClientFailed => (toolResult.url <=> auth[1] = NotAuthenticated)

\* an update_event call was refused by getClient() for want of a token record, and
\* its tool result carries the authorization URL
C28_Witness ==
  /\ tool = "updateEvent"
  /\ auth = <<NotAuthenticated>>
  /\ cpc = "done"
  /\ apiRequests = <<>>
  /\ ~toolResult.success
  /\ toolResult.url

\* ---------------------------------------------------------------------- C29
\* C29 (under SpecCalendar): the sendUpdates value of every delete request sent
\* to the calendar API equals the sendUpdates argument of the delete_event call,
\* and 'all' when the argument was omitted.
C29_DeleteHonoursSendUpdates ==
  \A i \in 1..Len(apiRequests) :
    apiRequests[i].method = "delete"
      => apiRequests[i].sendUpdates =
           IF args.sendUpdates = <<>> THEN "all" ELSE args.sendUpdates[1]

\* ---------------------------------------------------------------------- C30
\* the instant an RFC3339 time names
InstantOf(t) == t.wall - t.offset

\* the start or end `field` of a payload is the time the text names: for a text
\* with a time of day, that wall-clock time in the zone asked for or in the zone
\* of the process; for a text without one, that calendar day
IsSuppliedTime(field, text, timeZone, sys) ==
  LET named == chronoParse(text)[1]
  IN /\ field # <<>>
     /\ IF named.hour
          THEN /\ field[1].dateTime # <<>>
               /\ InstantOf(field[1].dateTime[1])
                    \in {named.wall - UtcOffset(normalizeTimezone(timeZone, sys)),
                         named.wall - UtcOffset(sys)}
          ELSE field[1].date = <<named.wall \div MinutesPerDay>>

\* a text argument that names a time
NamesTime(text) == text # <<>> /\ chronoParse(text[1]) # <<>>

\* C30 (under SpecCalendar): in the payload of every update request, each of
\* summary, description, location, start, end, attendees and reminders whose
\* argument was not supplied equals that field of the event fetched beforehand,
\* and each supplied one equals the supplied value (for start and end: the time
\* the supplied text names).
C30_PartialModification ==
  \A i \in 1..Len(apiRequests) :
    apiRequests[i].method = "update" =>
      LET payload == apiRequests[i].requestBody[1]
          existing == existingEvent[1]
      IN /\ payload.summary = IF args.summary = <<>> THEN existing.summary
                                                     ELSE args.summary
         /\ payload.description = IF args.description = <<>> THEN existing.description
                                                             ELSE args.description
         /\ payload.location = IF args.location = <<>> THEN existing.location
                                                       ELSE args.location
         /\ args.startTime = <<>> => payload.start = existing.start
         /\ NamesTime(args.startTime)
              => IsSuppliedTime(payload.start, args.startTime[1], args.timeZone,
                                systemZone)
         /\ args.endTime = <<>> => payload.end = existing.end
         /\ NamesTime(args.endTime)
              => IsSuppliedTime(payload.end, args.endTime[1], args.timeZone, systemZone)
         /\ args.attendees = <<>> => payload.attendees = existing.attendees
         /\ args.attendees # <<>>
              => /\ payload.attendees # <<>>
                 /\ Len(payload.attendees[1]) = Len(args.attendees[1])
                 /\ \A k \in 1..Len(args.attendees[1]) :
                      payload.attendees[1][k].email = args.attendees[1][k]
         /\ args.reminders = <<>> => payload.reminders = existing.reminders
         /\ args.reminders # <<>>
              => /\ payload.reminders # <<>>
                 /\ payload.reminders[1].overrides = args.reminders[1]

\* ------------------------------------------------------------ C31 .. C39
\* every invocation and every un-awaited task has finished
AtRest == \A c \in Callers : pc[c] = "idle" /\ bg[c] = "idle"

\* ---------------------------------------------------------------------- C31
\* the CallTool handler has returned (or raised) for the call in progress
Answered == name # "none" /\ cpc = "done"

\* C31 (under SpecServer): every CallTool call ends with a content response and
\* none with a rejected promise; a call of an unknown tool name gets the 'Unknown
\* tool' text and a call whose arguments the tool's schema rejects gets a response
\* with isError set, both without any handler having been called; and a handler
\* is only ever running, or has run, for a known tool with accepted arguments.
C31_CallToolNeverRaises ==
  /\ ~response.raised
  /\ Answered => response.text # "none"
  /\ (Answered /\ name \notin ToolNames)
       => (response = UnknownToolResponse /\ tool = "none" /\ toolResult = NoToolResult)
  /\ (Answered /\ name \in ToolNames /\ ~SchemaAccepts(name, args))
       => (response.isError /\ tool = "none" /\ toolResult = NoToolResult)
  /\ (name # "none" /\ tool # "none")
       => (name \in ToolNames /\ SchemaAccepts(name, args) /\ tool = ToolOperation(name))

\* C31 witness: a create_event call with an attendee that is no e-mail address has
\* been answered with isError set, and no handler was called
C31_Witness ==
  /\ name = "create_event"
  /\ NonEmptyString(args.summary) /\ args.startTime # <<>>
  /\ ~EmailsSchema(args.attendees)
  /\ cpc = "done"
  /\ response = CatchResponse
  /\ tool = "none"

\* ---------------------------------------------------------------------- C32
\* C32 (under SpecServer): runServer() goes on to connect the transport whatever
\* the outcome of initialize(); and an auth_status call awaits initialize() again,
\* whether or not the one at startup succeeded, and is answered with a content
\* response holding the status or a failure result, never with a rejected promise.
C32_StartWithoutAuthentication ==
  [][/\ server = "initialize" => server' = "connected"
     /\ (name' = "auth_status" /\ name = "none") => cpc' = "initialize"
     /\ (cpc = "initialize" /\ cpc' # "initialize")
          => /\ cpc' = "done"
             /\ response' = ResultResponse
             /\ toolResult'.success \/ toolResult'.code \in ErrorCodes
             /\ ~toolResult'.thrown
    ]_vars

\* C32 witness: the server is connected although no initialize() has succeeded,
\* and an auth_status call has been answered with a failure result
C32_Witness ==
  /\ server = "connected"
  /\ ~authInitialized
  /\ name = "auth_status"
  /\ cpc = "done"
  /\ response = ResultResponse
  /\ ~toolResult.success
  /\ toolResult.code \in {"AUTH_NOT_CONFIGURED", "PARSE_ERROR"}

\* the second call was a clearTokens() made on the initialized manager while the
\* getClient() of the first call was still in flight: past initialize(), that is
\* waiting for the answer to its refresh or saving the refreshed record
ClearedDuringRefresh ==
  /\ calls = 2
  /\ op[1] = "getClient"
  /\ op[2] = "clearTokens"
  /\ wasInitialized[2]

\* C34 (as claimed): once a clearTokens() and the getClient() refresh that was in
\* flight when it was called have both finished, this.tokens is null and the
\* store holds no record.
C34_ClearIsFinal ==
  (ClearedDuringRefresh /\ AtRest) => (tokens = <<>> /\ store = <<>>)

\* the two calls made so far were getClient() calls in flight together, each has
\* refreshed and returned the client (so the write of each succeeded), and the
\* provider rotates the refresh token with every answer
RefreshedTogether ==
  /\ provider = "rotating"
  /\ calls = 2
  /\ \A c \in Callers :
       op[c] = "getClient" /\ requests[c] > 0 /\ result[c].kind = "ok"

\* C35 (as claimed): once all the refresh handlings of concurrent getClient()
\* calls (the explicit ones and the listener's) have finished, the refresh token
\* in memory and in the store is the one the provider issued last (the provider's
\* answers are numbered, and a rotated refresh token is the number of its answer).
C35_NoLostRefreshToken ==
  (RefreshedTogether /\ AtRest)
    => /\ tokens # <<>> /\ tokens[1].refresh_token = issued
       /\ store # <<>> /\ store # Unparseable /\ store[1].refresh_token = issued

\* C36 (as claimed): whenever the manager is initialized and nothing is in flight,
\* this.tokens is null exactly when the store holds no record, and otherwise
\* this.tokens equals the record in the store.
C36_MemoryStoreAgreement ==
  (initialized /\ AtRest)
    => /\ tokens = <<>> <=> store = <<>>
       /\ tokens # <<>> => tokens = store

\* the two calls made so far were initialize() / getClient() calls in flight
\* together, and both are past initialize()
InitializedTogether ==
  /\ calls = 2
  /\ \A c \in Callers :
       /\ op[c] \in {"initialize", "getClient"}
       /\ pc[c] \notin {"loadCredentials", "loadTokens"}
  /\ initialized

\* C37 (as claimed): after two initialize() / getClient() calls in flight together
\* have initialized the manager, one client handle has been created (and with it
\* one 'tokens' listener registered); oauth2Client counts the handles created.
C37_SingleInitialization == InitializedTogether => oauth2Client = 1

\* the writes of the refreshed record made so far for the refresh of getClient()
\* invocation c: the explicit handleTokenRefresh and the listener's are each past
\* the writeFile of saveTokens when they are at "assign"
WritesOfRefresh(c) ==
  (IF op[c] = "getClient" /\ pc[c] = "assign" THEN 1 ELSE 0)
    + (IF bg[c] = "assign" THEN 1 ELSE 0)

\* C38 (as claimed): a refresh of getClient() writes the refreshed record to the
\* store once, the explicit handleTokenRefresh call and the one of the 'tokens'
\* listener taken together.
C38_OneWritePerRefresh ==
  \A c \in Callers : op[c] = "getClient" => WritesOfRefresh(c) <= 1

\* this step ends the initialize() of invocation c (its own, or the one its
\* getClient() awaits) with a failure
InitializeFails(c) ==
  /\ pc[c] \in {"loadCredentials", "loadTokens"}
  /\ pc'[c] = "idle"
  /\ result'[c] \in LoadFailures

\* this step is the invocation of initialize() or getClient(), by slot c
InvokedLoad(c) == Invoked(c, "initialize") \/ Invoked(c, "getClient")

\* C39 (under SpecRetry): a failing initialize() does not set the initialized
\* flag; while the flag is false every initialize() and getClient() call starts
\* the load from the read of the credential file; and the load goes through once
\* the files are good: the read of a valid credential file leads to the read of
\* the token store, and with valid credentials loaded the read of a parseable
\* store ends with the client handle created and the flag set.
C39_FailedInitializeRetriable ==
  [][\A c \in Callers :
       /\ InitializeFails(c) => (initialized' = initialized /\ UNCHANGED oauth2Client)
       /\ (InvokedLoad(c) /\ ~initialized) => pc'[c] = "loadCredentials"
       /\ (pc[c] = "loadCredentials" /\ pc'[c] \notin {"crashed", "loadCredentials"}
             /\ credFile = "valid")
            => (pc'[c] = "loadTokens" /\ credentials' = "valid")
       /\ (pc[c] = "loadTokens" /\ pc'[c] \notin {"crashed", "loadTokens"}
             /\ credentials = "valid" /\ store # Unparseable)
            => (initialized' /\ oauth2Client' = oauth2Client + 1 /\ tokens' = store
                /\ result'[c] \notin LoadFailures)
    ]_vars

\* C39 witness: the first call failed in the load, a file was repaired, and the
\* second call, an initialize() made after the first had ended, has succeeded
C39_Witness ==
  /\ calls = 2
  /\ op[1] = "initialize" /\ op[2] = "none"
  /\ pc[1] = "idle"
  /\ result[1] = Returned("initialize", tokens)
  /\ initialized
  /\ credFile = "valid"

\* the minutes from the start to the end of an event whose times are both
\* RFC3339 times
Length(event) ==
  InstantOf(event.end[1].dateTime[1]) - InstantOf(event.start[1].dateTime[1])

\* the minutes of a duration text that parses
Minutes(text) == 60 * parseDuration(text)[1].hours + parseDuration(text)[1].minutes

\* C33 (as claimed, under SpecCalendar): in every insert request the event end is
\* the time parsed from endTime when endTime was given (whatever duration says);
\* otherwise it lies the parsed duration after the event start when duration was
\* given, and exactly one hour after the event start when neither was.
C33_EndTimeSelection ==
  \A i \in 1..Len(apiRequests) :
    apiRequests[i].method = "insert" =>
      LET event == apiRequests[i].requestBody[1]
          timezone == normalizeTimezone(args.timeZone, systemZone)
      IN IF Truthy(args.endTime)
           THEN event.end =
                  <<formatForCalendar(
                      parseDateTime(args.endTime[1], timezone, systemZone)[1].dateTime,
                      timezone, FALSE, systemZone)>>
           ELSE /\ event.start[1].dateTime # <<>>
                /\ event.end[1].dateTime # <<>>
                /\ Length(event) = IF Truthy(args.duration) THEN Minutes(args.duration[1])
                                                             ELSE 60
====
